---- MODULE Spec2Model ----
(***************************************************************************)
(* Model of similar_images/similarity.py: perceptual-hash similarity       *)
(* search over a directory tree (find_similar_pairs_with_scores and its    *)
(* thread pools), the union-find grouper and the representative selector.  *)
(***************************************************************************)
EXTENDS Integers, Sequences, FiniteSets, TLC

\* ------------------------------------------------------------------ bounds
NumFiles == 3
MaxThreads == 2

\* ------------------------------------------------------- program constants
HASH_BITS == 256
LEVEL_DEFAULTS_Reversed == (1 :> 25) @@ (2 :> 15) @@ (3 :> 5)
LEVEL_DEFAULTS == (1 :> 5) @@ (2 :> 15) @@ (3 :> 25)

\* ------------------------------------------------------------- the corpus
\* A path is a number; the numbering is the order of str(path), and also the
\* order in which _collect_image_paths yields the files.  The root holds the
\* first half of the files directly (directory 1), one subfolder the rest
\* (directory 2).
Paths == 1..NumFiles
Dir(p) == IF 2 * p <= NumFiles + 1 THEN 1 ELSE 2
Dirs == {Dir(p) : p \in Paths}

\* Optional values: None is the empty sequence, a value v is <<v>>.
None == <<>>
Some(v) == <<v>>
IsNone(o) == o = <<>>
Val(o) == o[1]

\* What _compute_phash can return for a file: None on a decode failure, else
\* a hash, modelled as the set of positions of its 1 bits (of HASH_BITS).
HashPool == {{}, 1..15, 1..31}
HashOutcomes == {None} \cup {Some(h) : h \in HashPool}
\* The timestamps in the names of the files (what
\* parse_datetime_from_filename returns, in seconds): all the same, all two
\* seconds apart, or none in the first name and 0 or 2 in the others.
NamePatterns ==
    {[p \in Paths |-> Some(0)],
     [p \in Paths |-> Some(2 * p)],
     [p \in Paths |-> IF p = 1 THEN None ELSE Some(2 * (p % 2))]}

Max(a, b) == IF a >= b THEN a ELSE b
Min(a, b) == IF a <= b THEN a ELSE b
Abs(a) == IF a >= 0 THEN a ELSE -a

\* h1 - h2 of imagehash: the number of differing bits.
Hamming(h1, h2) == Cardinality((h1 \ h2) \cup (h2 \ h1))

\* similarity_score, as the numerator of the fraction over HASH_BITS:
\* max(0.0, 1.0 - d / bits) = SimNum / bits.
similarity_score_Floor(h1, h2, bits) ==
    IF Hamming(h1, h2) < bits THEN bits ELSE 0
similarity_score(h1, h2, bits) == Max(0, bits - Hamming(h1, h2))

\* ham = threshold if threshold is not None else LEVEL_DEFAULTS.get(level, LEVEL_DEFAULTS[2])
EffectiveThreshold_Widest(threshold, level) ==
    IF ~IsNone(threshold) THEN Val(threshold)
    ELSE IF level \in DOMAIN LEVEL_DEFAULTS THEN LEVEL_DEFAULTS[level]
    ELSE LEVEL_DEFAULTS[3]
EffectiveThreshold(threshold, level) ==
    IF ~IsNone(threshold) THEN Val(threshold)
    ELSE IF level \in DOMAIN LEVEL_DEFAULTS THEN LEVEL_DEFAULTS[level]
    ELSE LEVEL_DEFAULTS[2]

\* _collect_image_paths: [] for a root that is no directory; else the files
\* under it (recursive) or directly in it.
SeqOfSet(S) == [i \in 1..Cardinality(S) |-> CHOOSE p \in S : Cardinality({q \in S : q < p}) = i - 1]
collect_image_paths(isDir, recursive) ==
    IF ~isDir THEN <<>>
    ELSE IF recursive THEN SeqOfSet(Paths)
    ELSE SeqOfSet({p \in Paths : Dir(p) = 1})
\* The directory given as root: the root of the corpus ("root": directory 1
\* with its subfolder) or the subfolder ("sub": directory 2).
Roots == {"root", "sub"}
\* _collect_image_paths(dir, recursive)
collect_under(r, recursive) ==
    IF r = "root" THEN collect_image_paths(TRUE, recursive)
    ELSE SeqOfSet({p \in Paths : Dir(p) = 2})

\* The index pairs (i, j), i < j <= n, in the order of the nested loops
\* "for i in range(n): for j in range(i + 1, n)".
RECURSIVE PairIndicesFrom(_, _)
PairIndicesFrom(i, n) ==
    IF i >= n THEN <<>>
    ELSE [k \in 1..(n - i) |-> <<i, i + k>>] \o PairIndicesFrom(i + 1, n)
PairIndices_Ordered(n) ==
    PairIndicesFrom(1, n)
    \o [k \in 1..Len(PairIndicesFrom(1, n)) |->
          <<PairIndicesFrom(1, n)[k][2], PairIndicesFrom(1, n)[k][1]>>]
PairIndices(n) == PairIndicesFrom(1, n)

\* The pairs of a list of paths, in nested-loop order.
AllPairs(s) == [k \in 1..Len(PairIndices(Len(s))) |->
                  <<s[PairIndices(Len(s))[k][1]], s[PairIndices(Len(s))[k][2]]>>]

RECURSIVE Concat(_)
Concat(ss) == IF ss = <<>> THEN <<>> ELSE Head(ss) \o Concat(Tail(ss))

SeqSet(s) == {s[i] : i \in 1..Len(s)}

\* ------------------------------------------- _exif_sorted_candidate_pairs
\* What get_exif_datetime and stat().st_size can return (0: stat failed).
ExifTimes == {None, Some(0), Some(100)}
FileSizes == {0, 100, 105, 106}

\* _size_close: abs(s1 - s2) <= min(s1, s2) * 0.05, unknown sizes pass.
size_close_NoUnknown(s1, s2) == 20 * Abs(s1 - s2) <= Min(s1, s2)
size_close(s1, s2) ==
    IF s1 <= 0 \/ s2 <= 0 THEN TRUE
    ELSE 20 * Abs(s1 - s2) <= Min(s1, s2)

\* sorted(group, key=_key) restricted to the files with EXIF: by (time, path).
ExifLess(ex, a, b) == Val(ex[a]) < Val(ex[b]) \/ (Val(ex[a]) = Val(ex[b]) /\ a < b)
exif_prefix_ByPath(group, ex) == SeqOfSet({p \in SeqSet(group) : ~IsNone(ex[p])})
exif_prefix(group, ex) ==
    LET S == {p \in SeqSet(group) : ~IsNone(ex[p])}
    IN [i \in 1..Cardinality(S) |->
          CHOOSE p \in S : Cardinality({q \in S : ExifLess(ex, q, p)}) = i - 1]
\* ... and to the files without EXIF: by path.
no_exif_suffix(group, ex) == SeqOfSet({p \in SeqSet(group) : IsNone(ex[p])})

\* The inner loop over j of the sliding window, with its break.
RECURSIVE WindowFrom(_, _, _, _, _, _)
WindowFrom(pre, i, j, w, ex, sz) ==
    IF j > Len(pre) THEN <<>>
    ELSE IF Val(ex[pre[j]]) - Val(ex[pre[i]]) > w THEN <<>>
    ELSE (IF size_close(sz[pre[i]], sz[pre[j]]) THEN << <<pre[i], pre[j]>> >> ELSE <<>>)
         \o WindowFrom(pre, i, j + 1, w, ex, sz)

exif_sorted_candidate_pairs(group, w, ex, sz) ==
    IF w <= 0 \/ Len(group) < 2 THEN <<>>
    ELSE LET pre == exif_prefix(group, ex)
             suf == no_exif_suffix(group, ex)
             sufPairs == AllPairs(suf)
         IN Concat([i \in 1..Len(pre) |-> WindowFrom(pre, i, i + 1, w, ex, sz)])
            \o SelectSeq(sufPairs, LAMBDA pr : size_close(sz[pr[1]], sz[pr[2]]))

\* ------------------------------------------------------------ union-find
\* The dict parent: its keys in insertion order, and the parent of each.
NoParent == [keys |-> <<>>, par |-> <<>>]
SelfParent(its) == [keys |-> its, par |-> [p \in SeqSet(its) |-> p]]

RECURSIVE RootOf(_, _)
RootOf(par, x) == IF par[x] = x THEN x ELSE RootOf(par, par[x])
\* The keys find(x) goes through before it reaches the root.
RECURSIVE Chain(_, _)
Chain(par, x) == IF par[x] = x THEN {} ELSE {x} \cup Chain(par, par[x])

\* find(x), as the dict it leaves behind: x is entered as its own parent if
\* absent, and every key on the way to the root is re-parented to the root.
\* The value find returns is then par[x].
find(uf, x) ==
    LET u1 == IF x \in DOMAIN uf.par THEN uf
              ELSE [keys |-> Append(uf.keys, x), par |-> (x :> x) @@ uf.par]
        r == RootOf(u1.par, x)
        ch == Chain(u1.par, x)
    IN IF ch = {} THEN u1
       ELSE [u1 EXCEPT !.par = [n \in DOMAIN u1.par |->
                                  IF n \in ch THEN r ELSE u1.par[n]]]

\* union(x, y): px, py = find(x), find(y); if px != py: parent[px] = py
union_Unlinked(uf, x, y) == find(find(uf, x), y)
union(uf, x, y) ==
    LET u1 == find(uf, x)
        px == u1.par[x]
        u2 == find(u1, y)
        py == u2.par[y]
    IN IF px # py THEN [u2 EXCEPT !.par[px] = py] ELSE u2

\* for p1, p2, _ in pairs: union(p1, p2)
RECURSIVE UnionAll(_, _)
UnionAll(uf, prs) ==
    IF prs = <<>> THEN uf
    ELSE UnionAll(union(uf, Head(prs)[1], Head(prs)[2]), Tail(prs))

\* groups.setdefault(find(p), []).append(p) for p in parent, then
\* [sorted(g) for g in groups.values() if len(g) >= 2]: the groups come in
\* the order in which their roots are first met.
GroupsOf_KeepSingletons(uf) ==
    LET n == Len(uf.keys)
        root(i) == RootOf(uf.par, uf.keys[i])
        first == SeqOfSet({i \in 1..n : \A j \in 1..(i - 1) : root(j) # root(i)})
    IN [k \in 1..Len(first) |->
          SeqOfSet({uf.keys[i] : i \in {j \in 1..n : root(j) = root(first[k])}})]
GroupsOf(uf) ==
    LET n == Len(uf.keys)
        rt == [i \in 1..n |-> RootOf(uf.par, uf.keys[i])]
        root(i) == rt[i]
        first == SeqOfSet({i \in 1..n : \A j \in 1..(i - 1) : root(j) # root(i)})
        all == [k \in 1..Len(first) |->
                  SeqOfSet({uf.keys[i] : i \in {j \in 1..n : root(j) = root(first[k])}})]
    IN SelectSeq(all, LAMBDA g : Len(g) >= 2)

pairs_to_groups(pairs) ==
    IF pairs = <<>> THEN <<>> ELSE GroupsOf(UnionAll(NoParent, pairs))

\* ----------------------------------------- get_files_to_delete_from_groups
\* _key(p) = (0 if t is None else 1, t or datetime.min), compared.
KeyLess(ex, a, b) ==
    \/ IsNone(ex[a]) /\ ~IsNone(ex[b])
    \/ ~IsNone(ex[a]) /\ ~IsNone(ex[b]) /\ Val(ex[a]) < Val(ex[b])
\* sorted(group, key=_key): stable, equal keys keep the order of the group.
sorted_group(group, ex) ==
    [k \in 1..Len(group) |->
        group[CHOOSE i \in 1..Len(group) :
                Cardinality({j \in 1..Len(group) :
                               \/ KeyLess(ex, group[j], group[i])
                               \/ ~KeyLess(ex, group[i], group[j]) /\ j < i}) = k - 1]]
keep_path_Swapped(group, kp, ex) ==
    IF kp = "newer" THEN sorted_group(group, ex)[1]
    ELSE sorted_group(group, ex)[Len(group)]
keep_path(group, kp, ex) ==
    IF kp = "newer" THEN sorted_group(group, ex)[Len(group)]
    ELSE sorted_group(group, ex)[1]
get_files_to_delete_from_groups_ByKey(gs, kp, ex) ==
    Concat([g \in 1..Len(gs) |->
              SelectSeq(gs[g], LAMBDA p : \/ KeyLess(ex, p, keep_path(gs[g], kp, ex))
                                          \/ KeyLess(ex, keep_path(gs[g], kp, ex), p))])
get_files_to_delete_from_groups(gs, kp, ex) ==
    Concat([g \in 1..Len(gs) |->
              SelectSeq(gs[g], LAMBDA p : p # keep_path(gs[g], kp, ex))])

\* ----------------------------------------- find_similar_pairs_with_scores
VARIABLES
    args,         \* the arguments of the call (and the behaviour of the sink)
    pc,           \* where the calling thread is
    paths,        \* paths = _collect_image_paths(root, recursive)
    fnameTime,    \* what parse_datetime_from_filename returns for each path
    hashed,       \* the paths _compute_phash has returned for
    hashOf,       \* ... and what it returned for them
    cand,         \* dir_candidate_pairs
    total_hash,
    total_pairs,
    items,        \* the hashed paths, in the order of hashes.items()
    plist,        \* sequential paths: the pairs the compare loops go through
    si,           \* sequential paths: the loop position
    tasks,        \* the futures of the current thread pool, in submission order
    lock,         \* threading.Lock(): 0 when free, else the task holding it
    hash_done,    \* hash_done[0] (hash_idx in the sequential paths)
    pair_done,    \* pair_done[0] (pair_idx in the sequential paths)
    events,       \* the invocations of progress_callback, in order: phase, current, total
    notified,     \* how often the sink was called with each detail (a path, a pair)
    result,       \* the list the call returns
    compared,     \* the pairs whose distance has been computed
    groups,       \* the groups of find_similar_groups / pairs_to_groups
    exifOf,       \* what get_exif_datetime returns for each path of a group
    keep,         \* the keep policy given to get_files_to_delete_from_groups
    to_delete,    \* the list get_files_to_delete_from_groups returns
    sizeOf,       \* what stat().st_size gives for each path (0: stat failed)
    prev,         \* the arguments and the result of an earlier call on the corpus
    on_disk       \* the files that exist on disk (unlink removes them)

vars == <<args, pc, paths, fnameTime, hashed, hashOf, cand, total_hash,
          total_pairs, items, plist, si, tasks, lock, hash_done, pair_done,
          events, notified, result, compared, groups, exifOf, keep, to_delete,
          sizeOf, prev, on_disk>>

\* The state of the steps that follow the search.
post == <<groups, exifOf, keep, to_delete, sizeOf, prev, on_disk>>

\* The sink: absent, returning normally, or raising on one of its calls.
Sinks == {"none", "ok", "raise_hash", "raise_compare"}
sink_raises(phase, current) ==
    \/ args.cb = "raise_hash" /\ phase = "hash" /\ current = 1
    \/ args.cb = "raise_compare" /\ phase = "compare" /\ current = 0

\* api: the entry point called.  compare_dirs takes directory 1 and
\* directory 2 as its two roots.  isDir: the root is a directory.
Apis == {"find_similar_pairs_with_scores", "compare_dirs", "find_similar_groups"}
Levels == {0, 2}
Thresholds == {None, Some(-1)}
ArgSpace ==
    [api : Apis, root : Roots,
     isDir : BOOLEAN, recursive : {TRUE}, level : Levels, threshold : Thresholds,
     fast : BOOLEAN, exifW : {None, Some(60)}, timeW : {None, Some(1)},
     threads : 1..MaxThreads, cb : Sinks]

\* The arguments of an ordinary call: a directory, level 2, no threshold.
Ordinary(a) == a.isDir /\ a.level = 2 /\ IsNone(a.threshold)

\* The calls explored: an EXIF window goes with the fast path only (the
\* caller passes none otherwise); the windows are combined with a sink that
\* returns normally.  compare_dirs and find_similar_groups have no fast
\* mode, window or pool; other roots, levels and thresholds are given to the
\* plain calls.  The subfolder is given as root to ordinary searches whose
\* sink, if any, returns normally.
Plain(a) == ~a.fast /\ IsNone(a.timeW) /\ a.threads = 1
CallOk(a) ==
    /\ ~a.fast => IsNone(a.exifW)
    /\ a.cb # "ok" => (IsNone(a.exifW) /\ IsNone(a.timeW))
    /\ a.api = "compare_dirs" => Plain(a)
    /\ a.api = "find_similar_groups" => (Plain(a) /\ a.cb = "none")
    /\ ~Ordinary(a) => (Plain(a) /\ a.cb = "none")
    /\ a.root = "sub" =>
          (a.api = "find_similar_pairs_with_scores" /\ Ordinary(a) /\ a.cb \in {"none", "ok"})
Calls == {a \in ArgSpace : CallOk(a)}

NoTask == <<>>

Init ==
    /\ args \in Calls
    /\ pc = "start"
    /\ paths = <<>>
    /\ fnameTime \in IF IsNone(args.timeW) THEN {[p \in Paths |-> None]} ELSE NamePatterns
    /\ hashed = {}
    /\ hashOf = [p \in Paths |-> None]
    /\ cand = [d \in Dirs |-> <<>>]
    /\ total_hash = 0
    /\ total_pairs = 0
    /\ items = <<>>
    /\ plist = <<>>
    /\ si = 1
    /\ tasks = NoTask
    /\ lock = 0
    /\ hash_done = 0
    /\ pair_done = 0
    /\ events = <<>>
    /\ notified = <<>>
    /\ result = <<>>
    /\ compared = {}
    /\ groups = <<>>
    /\ exifOf = <<>>
    /\ keep = "newer"
    /\ to_delete = <<>>
    /\ sizeOf = <<>>
    /\ prev = None
    /\ on_disk = Paths

ham == EffectiveThreshold(args.threshold, args.level)
use_exif_window == ~IsNone(args.exifW) /\ Val(args.exifW) > 0
pairs_api == args.api = "find_similar_pairs_with_scores"
dirs_api == args.api = "compare_dirs"
groups_api == args.api = "find_similar_groups"
fast_path == pairs_api /\ args.fast /\ args.recursive

\* by_dir: the files of one parent directory, in collection order; the
\* directories in sorted order.
by_dir(ps, d) == SelectSeq(ps, LAMBDA p : Dir(p) = d)
sorted_dirs(ps) == SeqOfSet({Dir(p) : p \in SeqSet(ps)})

SumSeq(s) == LET RECURSIVE go(_)
                 go(k) == IF k = 0 THEN 0 ELSE s[k] + go(k - 1)
             IN go(Len(s))
PairCount(n) == Max(0, (n * (n - 1)) \div 2)

\* progress_callback(phase, counter - 1, total, detail): the counter has been
\* incremented just before.
ProgressEvent_NoOffset(phase, counter, total) ==
    [phase |-> phase, current |-> counter, total |-> total]
ProgressEvent(phase, counter, total) ==
    [phase |-> phase, current |-> counter - 1, total |-> total]
\* ... and the count of the calls made with that detail.
Notify(detail) ==
    IF detail \in DOMAIN notified THEN [notified EXCEPT ![detail] = @ + 1]
    ELSE (detail :> 1) @@ notified

\* _should_compare_by_time
should_compare_by_time(p1, p2) ==
    IF IsNone(args.timeW) THEN TRUE
    ELSE IF IsNone(fnameTime[p1]) \/ IsNone(fnameTime[p2]) THEN TRUE
    ELSE Abs(Val(fnameTime[p1]) - Val(fnameTime[p2])) <= Val(args.timeW)

\* The hashed files of a list, in its order (the items of the hash dict).
HashedOf_UpToFailure(ps, hf) ==
    SelectSeq(ps, LAMBDA p : \A q \in SeqSet(ps) : q <= p => ~IsNone(hf[q]))
HashedOf(ps, hf) == SelectSeq(ps, LAMBDA p : ~IsNone(hf[p]))

\* A compared pair is kept iff d <= ham; the triple holds the similarity.
Triple(p1, p2, hf) == <<p1, p2, similarity_score(Val(hf[p1]), Val(hf[p2]), HASH_BITS)>>
Within_Strict(p1, p2, hf) == Hamming(Val(hf[p1]), Val(hf[p2])) < ham
Within(p1, p2, hf) == Hamming(Val(hf[p1]), Val(hf[p2])) <= ham
Kept_AtThreshold(p1, p2, hf) ==
    IF Hamming(Val(hf[p1]), Val(hf[p2])) = ham THEN << Triple(p1, p2, hf) >> ELSE <<>>
Kept(p1, p2, hf) == IF Within(p1, p2, hf) THEN << Triple(p1, p2, hf) >> ELSE <<>>

\* ------------------------------------------------------------ the pool
\* A future of a ThreadPoolExecutor and the task behind it.  kind: "hash"
\* (hash_one), "chunk" (compare_chunk) or "folder" (process_one_folder).
NewTask(kind, group, pairs, ph) ==
    [kind |-> kind, status |-> "queued", group |-> group, pairs |-> pairs,
     ph |-> ph, idx |-> 1, incb |-> FALSE, cur |-> 0, res |-> <<>>,
     consumed |-> FALSE]

Running(ts) == {t \in 1..Len(ts) : ts[t].status = "running"}

\* "with lock:" can be entered when no thread holds the lock.
LockFree_Unguarded(l) == TRUE
LockFree(l) == l = 0

\* Leaving "with ThreadPoolExecutor(...) as executor": shutdown(wait=True)
\* returns when every future has run to its end or was cancelled.
PoolIdle_NoWait(ts) == TRUE
PoolIdle(ts) == \A t \in 1..Len(ts) : ts[t].status \notin {"queued", "running"}

\* The loop over executor.map(hash_one, paths) has consumed every result.
AllHashed_First(ts) == \E t \in 1..Len(ts) : ts[t].status = "done"
AllHashed(ts) == \A t \in 1..Len(ts) : ts[t].status = "done"

\* chunks = [pair_indices[k : k + chunk_size] for k in range(0, len(pair_indices), chunk_size)]
Chunks_DropTail(pi, size) ==
    [c \in 1..(Len(pi) \div size) |->
        SubSeq(pi, (c - 1) * size + 1, Min(c * size, Len(pi)))]
Chunks(pi, size) ==
    [c \in 1..((Len(pi) + size - 1) \div size) |->
        SubSeq(pi, (c - 1) * size + 1, Min(c * size, Len(pi)))]
chunk_size(npairs, threads) == Max(1, (npairs + threads - 1) \div threads)
PathPairs(its, chunk) == [k \in 1..Len(chunk) |-> <<its[chunk[k][1]], its[chunk[k][2]]>>]

\* A task after the hash of group[idx] (and its progress update) is done:
\* the next file; or the end of hash_one; or, in process_one_folder, on to
\* the pairs of the folder.
AfterHash(task, hf) ==
    IF task.idx < Len(task.group) THEN [task EXCEPT !.idx = @ + 1, !.incb = FALSE]
    ELSE IF task.kind = "hash" THEN [task EXCEPT !.status = "done", !.incb = FALSE]
    ELSE LET prs == IF use_exif_window THEN task.pairs
                    ELSE AllPairs(HashedOf(task.group, hf))
         IN [task EXCEPT !.ph = "compare", !.idx = 1, !.pairs = prs, !.incb = FALSE,
                         !.status = IF prs = <<>> THEN "done" ELSE "running"]

\* A task after pair idx: local_result / chunk_result extended by kept.
AfterCompare(task, kept) ==
    [task EXCEPT !.res = @ \o kept, !.idx = @ + 1, !.incb = FALSE,
                 !.status = IF task.idx < Len(task.pairs) THEN "running" ELSE "done"]

\* The pairs a compare loop passes over without comparing: in the EXIF
\* branches a pair with an unhashed file, elsewhere a pair outside the
\* filename time window.
exif_branch == fast_path /\ use_exif_window
SkipPair(p1, p2, hf) ==
    IF exif_branch THEN IsNone(hf[p1]) \/ IsNone(hf[p2])
    ELSE ~should_compare_by_time(p1, p2)

\* A worker thread takes the oldest queued future.
TaskStart(t) ==
    /\ tasks[t].status = "queued"
    /\ \A u \in 1..(t - 1) : tasks[u].status # "queued"
    /\ Cardinality(Running(tasks)) < args.threads
    /\ tasks' = [tasks EXCEPT ![t].status = "running"]
    /\ UNCHANGED <<args, pc, paths, fnameTime, hashed, hashOf, cand,
                   total_hash, total_pairs, items, plist, si, lock, hash_done,
                   pair_done, events, notified, result, compared>>
    /\ UNCHANGED post

\* hash_one / the hash loop of process_one_folder: _compute_phash(p), then,
\* with a sink, "with lock: hash_done[0] += 1; progress_callback(...)" up to
\* the call of the sink.  The hash is local to the thread, so it is taken
\* together with the acquisition of the lock that follows it.
TaskHash(t) ==
    /\ tasks[t].status = "running" /\ tasks[t].ph = "hash" /\ ~tasks[t].incb
    /\ LET task == tasks[t]
           p == task.group[task.idx]
       IN \E h \in HashOutcomes :
            LET hf == [hashOf EXCEPT ![p] = h] IN
            /\ hashOf' = hf
            /\ hashed' = hashed \cup {p}
            /\ IF args.cb = "none"
               THEN /\ tasks' = [tasks EXCEPT ![t] = AfterHash(task, hf)]
                    /\ UNCHANGED <<lock, hash_done, events, notified>>
               ELSE /\ LockFree(lock)
                    /\ lock' = t
                    /\ hash_done' = hash_done + 1
                    /\ events' = Append(events, ProgressEvent("hash", hash_done + 1, total_hash))
                    /\ notified' = Notify(<<p>>)
                    /\ tasks' = [tasks EXCEPT ![t].incb = TRUE, ![t].cur = hash_done]
    /\ UNCHANGED <<args, pc, paths, fnameTime, cand, total_hash, total_pairs,
                   items, plist, si, pair_done, result, compared>>
    /\ UNCHANGED post

\* compare_chunk / the compare loops of process_one_folder, one pair: the
\* skip test, d and sim, then, with a sink, the update under the lock up to
\* the call of the sink.
TaskCompare(t) ==
    /\ tasks[t].status = "running" /\ tasks[t].ph = "compare" /\ ~tasks[t].incb
    /\ LET task == tasks[t]
           p1 == task.pairs[task.idx][1]
           p2 == task.pairs[task.idx][2]
       IN   IF SkipPair(p1, p2, hashOf)
               THEN /\ tasks' = [tasks EXCEPT ![t] = AfterCompare(task, <<>>)]
                    /\ UNCHANGED <<lock, pair_done, events, notified, compared>>
               ELSE /\ compared' = compared \cup {<<p1, p2>>}
                    /\ IF args.cb = "none" \/ total_pairs <= 0
                       THEN /\ tasks' = [tasks EXCEPT ![t] = AfterCompare(task, Kept(p1, p2, hashOf))]
                            /\ UNCHANGED <<lock, pair_done, events, notified>>
                       ELSE /\ LockFree(lock)
                            /\ lock' = t
                            /\ pair_done' = pair_done + 1
                            /\ events' = Append(events, ProgressEvent("compare", pair_done + 1, total_pairs))
                            /\ notified' = Notify(<<p1, p2>>)
                            /\ tasks' = [tasks EXCEPT ![t].incb = TRUE, ![t].cur = pair_done]
    /\ UNCHANGED <<args, pc, paths, fnameTime, hashed, hashOf, cand, total_hash,
                   total_pairs, items, plist, si, hash_done, result>>
    /\ UNCHANGED post

\* The sink returns (or raises) and the "with lock:" block is left; the task
\* goes on to the rest of its loop body, or ends with the exception.
TaskLeaveCb(t) ==
    /\ tasks[t].status = "running" /\ tasks[t].incb
    /\ lock' = 0
    /\ LET task == tasks[t] IN
       tasks' = [tasks EXCEPT ![t] =
                   IF sink_raises(task.ph, task.cur)
                   THEN [task EXCEPT !.status = "failed", !.incb = FALSE]
                   ELSE IF task.ph = "hash" THEN AfterHash(task, hashOf)
                   ELSE AfterCompare(task, Kept(task.pairs[task.idx][1], task.pairs[task.idx][2], hashOf))]
    /\ UNCHANGED <<args, pc, paths, fnameTime, hashed, hashOf, cand,
                   total_hash, total_pairs, items, plist, si, hash_done,
                   pair_done, events, notified, result, compared>>
    /\ UNCHANGED post

\* ------------------------------------------------------ the calling thread
\* compare_dirs: the pairs of "for p1 in hashes1: for p2 in hashes2".
CrossPairs(s1, s2) ==
    [k \in 1..(Len(s1) * Len(s2)) |->
        <<s1[((k - 1) \div Len(s2)) + 1], s2[((k - 1) % Len(s2)) + 1]>>]

\* The order of the sequential hash loops: by sorted directory, then by
\* file (fast path); the collection order (non-fast).
SeqOrder(ps) ==
    IF fast_path
    THEN Concat([k \in 1..Len(sorted_dirs(ps)) |-> by_dir(ps, sorted_dirs(ps)[k])])
    ELSE ps

\* The pairs the sequential compare loops go through.
SeqPairList(ps, hf) ==
    IF fast_path
    THEN Concat([k \in 1..Len(sorted_dirs(ps)) |->
                   IF use_exif_window THEN cand[sorted_dirs(ps)[k]]
                   ELSE AllPairs(HashedOf(by_dir(ps, sorted_dirs(ps)[k]), hf))])
    ELSE IF dirs_api
    THEN CrossPairs(HashedOf(by_dir(ps, 1), hf), HashedOf(by_dir(ps, 2), hf))
    ELSE AllPairs(HashedOf(ps, hf))

\* total_pairs of the sequential paths, computed after the hash loop.
SeqTotalPairs(ps, hf) ==
    IF fast_path
    THEN IF use_exif_window
         THEN SumSeq([k \in 1..Len(sorted_dirs(ps)) |-> Len(cand[sorted_dirs(ps)[k]])])
         ELSE SumSeq([k \in 1..Len(sorted_dirs(ps)) |->
                        PairCount(Len(HashedOf(by_dir(ps, sorted_dirs(ps)[k]), hf)))])
    ELSE IF dirs_api
    THEN Len(HashedOf(by_dir(ps, 1), hf)) * Len(HashedOf(by_dir(ps, 2), hf))
    ELSE PairCount(Len(HashedOf(ps, hf)))

\* total_pairs of the fast path, computed before any hash.
FastTotalPairs(ps, cd) ==
    IF use_exif_window
    THEN SumSeq([k \in 1..Len(sorted_dirs(ps)) |-> Len(cd[sorted_dirs(ps)[k]])])
    ELSE SumSeq([k \in 1..Len(sorted_dirs(ps)) |-> PairCount(Len(by_dir(ps, sorted_dirs(ps)[k])))])

FolderTasks_Whole(ps, cd) ==
    [k \in 1..Len(sorted_dirs(ps)) |->
        NewTask("folder", ps,
                IF use_exif_window THEN cd[sorted_dirs(ps)[k]] ELSE <<>>, "hash")]
FolderTasks(ps, cd) ==
    [k \in 1..Len(sorted_dirs(ps)) |->
        NewTask("folder", by_dir(ps, sorted_dirs(ps)[k]),
                IF use_exif_window THEN cd[sorted_dirs(ps)[k]] ELSE <<>>, "hash")]
HashTasks(ps) == [k \in 1..Len(ps) |-> NewTask("hash", <<ps[k]>>, <<>>, "hash")]
ChunkTasks(its, threads) ==
    LET pi == PairIndices(Len(its))
        ch == Chunks(pi, chunk_size(Len(pi), threads))
    IN [k \in 1..Len(ch) |-> NewTask("chunk", <<>>, PathPairs(its, ch[k]), "compare")]

\* The entry of find_similar_pairs_with_scores (of compare_dirs) up to the
\* first loop or pool.  In the EXIF branch the candidate pairs are computed
\* here, from the EXIF times and sizes read now.
Call ==
    /\ pc = "start"
    /\ LET ps == IF args.isDir THEN collect_under(args.root, args.recursive) ELSE <<>> IN
       /\ paths' = ps
       /\ IF \/ ~dirs_api /\ Len(ps) < 2
             \/ dirs_api /\ (by_dir(ps, 1) = <<>> \/ by_dir(ps, 2) = <<>>)
          THEN /\ pc' = "returned"
               /\ UNCHANGED <<cand, total_hash, total_pairs, tasks>>
          ELSE /\ total_hash' = Len(ps)
               /\ IF exif_branch
                  THEN \E ex \in [Paths -> ExifTimes], sz \in [Paths -> FileSizes] :
                          cand' = [d \in Dirs |->
                                     exif_sorted_candidate_pairs(by_dir(ps, d), Val(args.exifW), ex, sz)]
                  ELSE cand' = cand
               /\ total_pairs' = IF fast_path THEN FastTotalPairs(ps, cand') ELSE 0
               /\ IF args.threads <= 1
                  THEN pc' = "seq_hash" /\ tasks' = tasks
                  ELSE IF fast_path
                       THEN pc' = "as_completed" /\ tasks' = FolderTasks(ps, cand')
                       ELSE pc' = "map" /\ tasks' = HashTasks(ps)
    /\ UNCHANGED <<args, fnameTime, hashed, hashOf, items, plist, si, lock,
                   hash_done, pair_done, events, notified, result, compared>>
    /\ UNCHANGED post

\* One round of a sequential hash loop: the progress update, then the hash.
\* After the last file: items, total_pairs and the pairs to go through.
SeqHash ==
    /\ pc = "seq_hash"
    /\ LET p == SeqOrder(paths)[si]
           ev == ProgressEvent("hash", hash_done + 1, total_hash)
       IN /\ events' = IF args.cb = "none" THEN events ELSE Append(events, ev)
          /\ notified' = IF args.cb = "none" THEN notified ELSE Notify(<<p>>)
          /\ IF args.cb # "none" /\ sink_raises("hash", ev.current)
             THEN /\ pc' = "raised"
                  /\ UNCHANGED <<hashed, hashOf, total_pairs, items, plist, si, hash_done>>
             ELSE /\ hash_done' = hash_done + 1
                  /\ hashed' = hashed \cup {p}
                  /\ \E h \in HashOutcomes :
                       LET hf == [hashOf EXCEPT ![p] = h] IN
                       /\ hashOf' = hf
                       /\ IF si < Len(paths)
                          THEN /\ si' = si + 1
                               /\ pc' = pc
                               /\ UNCHANGED <<total_pairs, items, plist>>
                          ELSE /\ si' = 1
                               /\ items' = HashedOf(SeqOrder(paths), hf)
                               /\ plist' = SeqPairList(paths, hf)
                               /\ total_pairs' = SeqTotalPairs(paths, hf)
                               /\ pc' = IF groups_api THEN "seq_union"
                                        ELSE IF SeqPairList(paths, hf) = <<>> THEN "returned"
                                        ELSE "seq_cmp"
    /\ UNCHANGED <<args, paths, fnameTime, cand, total_hash, tasks, lock,
                   pair_done, result, compared>>
    /\ UNCHANGED post

\* One round of a sequential compare loop.
SeqCompare ==
    /\ pc = "seq_cmp"
    /\ LET p1 == plist[si][1]
           p2 == plist[si][2]
           ev == ProgressEvent("compare", pair_done + 1, total_pairs)
           last == si >= Len(plist)
       IN   IF SkipPair(p1, p2, hashOf)
               THEN /\ si' = si + 1
                    /\ pc' = IF last THEN "returned" ELSE pc
                    /\ UNCHANGED <<pair_done, events, notified, result, compared>>
               ELSE /\ compared' = compared \cup {<<p1, p2>>}
                    /\ events' = IF args.cb # "none" /\ total_pairs > 0
                                 THEN Append(events, ev) ELSE events
                    /\ notified' = IF args.cb # "none" /\ total_pairs > 0
                                   THEN Notify(<<p1, p2>>) ELSE notified
                    /\ IF args.cb # "none" /\ total_pairs > 0 /\ sink_raises("compare", ev.current)
                       THEN /\ pc' = "raised"
                            /\ UNCHANGED <<si, pair_done, result>>
                       ELSE /\ pair_done' = pair_done + 1
                            /\ result' = result \o Kept(p1, p2, hashOf)
                            /\ si' = si + 1
                            /\ pc' = IF last THEN "returned" ELSE pc
    /\ UNCHANGED <<args, paths, fnameTime, hashed, hashOf, cand, total_hash,
                   total_pairs, items, plist, tasks, lock, hash_done>>
    /\ UNCHANGED post

\* find_similar_groups after its hash loop: the unions over the pairs within
\* ham, then the groups.
find_similar_groups_of_Strict(its, hf) ==
    GroupsOf(UnionAll(SelfParent(its),
                      SelectSeq(AllPairs(its), LAMBDA pr : Within_Strict(pr[1], pr[2], hf))))
find_similar_groups_of(its, hf) ==
    GroupsOf(UnionAll(SelfParent(its),
                      SelectSeq(AllPairs(its), LAMBDA pr : Within(pr[1], pr[2], hf))))
SeqUnion ==
    /\ pc = "seq_union"
    /\ groups' = find_similar_groups_of(items, hashOf)
    /\ pc' = "returned"
    /\ UNCHANGED <<args, paths, fnameTime, hashed, hashOf, cand, total_hash,
                   total_pairs, items, plist, si, tasks, lock, hash_done, pair_done,
                   events, notified, result, compared, exifOf, keep, to_delete,
                   sizeOf, prev,
                   on_disk>>

\* Non-fast, threads > 1: the loop over executor.map has taken every result
\* and the hash pool is left; the pairs are cut into chunks and submitted.
MapDone ==
    /\ pc = "map"
    /\ AllHashed(tasks)
    /\ LET its == HashedOf(paths, hashOf) IN
       /\ items' = its
       /\ total_pairs' = IF Len(its) >= 2 THEN (Len(its) * (Len(its) - 1)) \div 2 ELSE 0
       /\ tasks' = ChunkTasks(its, args.threads)
       /\ pc' = IF ChunkTasks(its, args.threads) = <<>> THEN "returned" ELSE "as_completed"
    /\ pair_done' = 0
    /\ UNCHANGED <<args, paths, fnameTime, hashed, hashOf, cand, total_hash,
                   plist, si, lock, hash_done, events, notified, result, compared>>
    /\ UNCHANGED post

\* ... or the next result in order is an exception: the iterator of
\* executor.map cancels the futures not yet started and the exception leaves
\* the "with" block.
MapFail ==
    /\ pc = "map"
    /\ \E i \in 1..Len(tasks) :
         /\ tasks[i].status = "failed"
         /\ \A j \in 1..(i - 1) : tasks[j].status = "done"
         /\ tasks' = [k \in 1..Len(tasks) |->
                        IF k > i /\ tasks[k].status = "queued"
                        THEN [tasks[k] EXCEPT !.status = "cancelled"] ELSE tasks[k]]
    /\ pc' = "exit_raise"
    /\ UNCHANGED <<args, paths, fnameTime, hashed, hashOf, cand, total_hash,
                   total_pairs, items, plist, si, lock, hash_done, pair_done,
                   events, notified, result, compared>>
    /\ UNCHANGED post

\* "for future in as_completed(...): result.extend(future.result())": any
\* finished future not yet taken; its exception leaves the "with" block.
AsCompleted(t) ==
    /\ pc = "as_completed"
    /\ ~tasks[t].consumed
    /\ tasks[t].status \in {"done", "failed"}
    /\ tasks' = [tasks EXCEPT ![t].consumed = TRUE]
    /\ IF tasks[t].status = "failed"
       THEN pc' = "exit_raise" /\ result' = result
       ELSE /\ result' = result \o tasks[t].res
            /\ pc' = IF \A u \in 1..Len(tasks) : u = t \/ tasks[u].consumed
                     THEN "exit_ok" ELSE pc
    /\ UNCHANGED <<args, paths, fnameTime, hashed, hashOf, cand, total_hash,
                   total_pairs, items, plist, si, lock, hash_done, pair_done,
                   events, notified, compared>>
    /\ UNCHANGED post

\* The end of the "with ThreadPoolExecutor" block, then the return (or the
\* exception reaching the caller).
PoolExit ==
    /\ pc \in {"exit_ok", "exit_raise"}
    /\ PoolIdle(tasks)
    /\ pc' = IF pc = "exit_ok" THEN "returned" ELSE "raised"
    /\ UNCHANGED <<args, paths, fnameTime, hashed, hashOf, cand, total_hash,
                   total_pairs, items, plist, si, tasks, lock, hash_done, pair_done,
                   events, notified, result, compared>>
    /\ UNCHANGED post

Next ==
    \/ Call
    \/ SeqHash
    \/ SeqCompare
    \/ SeqUnion
    \/ MapDone
    \/ MapFail
    \/ PoolExit
    \/ \E t \in 1..Len(tasks) : TaskStart(t)
    \/ \E t \in 1..Len(tasks) : TaskHash(t)
    \/ \E t \in 1..Len(tasks) : TaskCompare(t)
    \/ \E t \in 1..Len(tasks) : TaskLeaveCb(t)
    \/ \E t \in 1..Len(tasks) : AsCompleted(t)

Spec == Init /\ [][Next]_vars

\* ------------------------------------------- the search, then the grouping
\* The single-directory flow of the command line on a larger corpus, taken
\* up where the compare pool of the multithreaded non-fast path has been
\* filled: every file is hashed and the chunks are submitted.  When the
\* search has returned, its pairs go to pairs_to_groups and the groups to
\* get_files_to_delete_from_groups.
MergeFiles == NumFiles + 1
MergePaths == 1..MergeFiles
MergeCalls ==
    {a \in ArgSpace :
        /\ a.api = "find_similar_pairs_with_scores" /\ Ordinary(a) /\ a.root = "root"
        /\ ~a.fast /\ IsNone(a.exifW) /\ IsNone(a.timeW)
        /\ a.threads = MaxThreads /\ a.cb = "none"}

MergeInit ==
    /\ args \in MergeCalls
    /\ paths = SeqOfSet(MergePaths)
    /\ fnameTime = [p \in MergePaths |-> None]
    /\ hashed = MergePaths
    /\ hashOf \in [MergePaths -> HashOutcomes]
    /\ cand = [d \in Dirs |-> <<>>]
    /\ total_hash = MergeFiles
    /\ items = HashedOf(paths, hashOf)
    /\ total_pairs = IF Len(items) >= 2 THEN (Len(items) * (Len(items) - 1)) \div 2 ELSE 0
    /\ tasks = ChunkTasks(items, args.threads)
    /\ pc = IF tasks = <<>> THEN "returned" ELSE "as_completed"
    /\ plist = <<>>
    /\ si = 1
    /\ lock = 0
    /\ hash_done = 0
    /\ pair_done = 0
    /\ events = <<>>
    /\ notified = <<>>
    /\ result = <<>>
    /\ compared = {}
    /\ groups = <<>>
    /\ exifOf = <<>>
    /\ keep = "newer"
    /\ to_delete = <<>>
    /\ sizeOf = <<>>
    /\ prev = None
    /\ on_disk = MergePaths

\* groups = pairs_to_groups(pairs)
PairsToGroups ==
    /\ pc = "returned"
    /\ groups' = pairs_to_groups(result)
    /\ pc' = "grouped"
    /\ UNCHANGED <<args, paths, fnameTime, hashed, hashOf, cand, total_hash,
                   total_pairs, items, plist, si, tasks, lock, hash_done, pair_done,
                   events, notified, result, compared, exifOf, keep, to_delete,
                   sizeOf, prev,
                   on_disk>>

\* to_delete = get_files_to_delete_from_groups(groups, keep), with the EXIF
\* times it reads.
GetFilesToDelete ==
    /\ pc = "grouped"
    /\ \E ex \in [MergePaths -> ExifTimes], kp \in {"newer", "older"} :
         /\ exifOf' = ex
         /\ keep' = kp
         /\ to_delete' = get_files_to_delete_from_groups(groups, kp, ex)
    /\ pc' = "selected"
    /\ UNCHANGED <<args, paths, fnameTime, hashed, hashOf, cand, total_hash,
                   total_pairs, items, plist, si, tasks, lock, hash_done, pair_done,
                   events, notified, result, compared, groups, sizeOf, prev,
                   on_disk>>

MergeNext ==
    \/ PoolExit
    \/ PairsToGroups
    \/ GetFilesToDelete
    \/ \E t \in 1..Len(tasks) : TaskStart(t)
    \/ \E t \in 1..Len(tasks) : TaskCompare(t)
    \/ \E t \in 1..Len(tasks) : AsCompleted(t)

SpecMerge == MergeInit /\ [][MergeNext]_vars

\* The result of the sequential path (threads <= 1) on the corpus: every
\* pair of the compare loops that is not passed over and is within ham.
SeqResult(ps, hf) ==
    LET pl == SeqPairList(ps, hf)
    IN Concat([k \in 1..Len(pl) |->
                 IF SkipPair(pl[k][1], pl[k][2], hf) THEN <<>>
                 ELSE Kept(pl[k][1], pl[k][2], hf)])

\* ------------------------------------------- two calls on the same corpus
\* A caller runs find_similar_pairs_with_scores (or compare_dirs) on a
\* corpus, keeps what it returned, and runs it again on the same files with
\* one argument changed: a higher level or threshold, the fast mode off, or
\* a window unset.  The files give the same hash, name, EXIF time and size
\* in both calls.  The calls are sequential ones (num_threads = 1, no sink).
TwiceLevels == {0, 1, 2, 3}
TwiceThresholds == {None, Some(0), Some(15), Some(16)}
TwiceArgSpace ==
    [api : {"find_similar_pairs_with_scores", "compare_dirs"},
     isDir : {TRUE}, recursive : {TRUE}, level : TwiceLevels, threshold : TwiceThresholds,
     fast : BOOLEAN, exifW : {None, Some(60)}, timeW : {None, Some(1)},
     threads : {1}, cb : {"none"}]
\* The first calls: compare_dirs has no fast mode and no window; the EXIF
\* window goes with the fast path and is explored at level 2.
FirstCalls ==
    {a \in TwiceArgSpace :
        /\ (a.api = "compare_dirs") => Plain(a)
        /\ (~a.fast) => IsNone(a.exifW)
        /\ (~IsNone(a.exifW)) => Ordinary(a)}
\* The second calls after a first call a.
SecondCalls(a) ==
    {[a EXCEPT !.level = l] : l \in {m \in TwiceLevels : IsNone(a.threshold) /\ m > a.level}}
    \cup {[a EXCEPT !.threshold = t] :
            t \in {u \in TwiceThresholds \ {None} :
                     ~IsNone(a.threshold) /\ Val(u) > Val(a.threshold)}}
    \cup {[a EXCEPT !.fast = FALSE] : x \in {y \in {0} : a.fast}}
    \cup {[a EXCEPT !.exifW = None] : x \in {y \in {0} : ~IsNone(a.exifW)}}
    \cup {[a EXCEPT !.timeW = None] : x \in {y \in {0} : ~IsNone(a.timeW)}}
    \cup {[a EXCEPT !.exifW = None, !.timeW = None] :
            x \in {y \in {0} : ~IsNone(a.exifW) /\ ~IsNone(a.timeW)}}

\* The sizes of the files: all the same, or all far from each other.
SizePatterns ==
    {[p \in Paths |-> 100],
     [p \in Paths |-> 100 * p]}

\* The EXIF times of the files: none; all the same; 100 seconds apart from
\* one file to the next; or none for the first file and the same for the
\* others.
ExifPatterns ==
    {[p \in Paths |-> None],
     [p \in Paths |-> Some(0)],
     [p \in Paths |-> Some(100 * (p % 2))],
     [p \in Paths |-> IF p = 1 THEN None ELSE Some(0)]}

TwiceInit ==
    /\ args \in FirstCalls
    /\ pc = "start"
    /\ paths = <<>>
    /\ fnameTime \in IF IsNone(args.timeW) THEN {[p \in Paths |-> None]} ELSE NamePatterns
    /\ hashed = {}
    /\ hashOf \in [Paths -> HashOutcomes]
    /\ exifOf \in IF IsNone(args.exifW) THEN {[p \in Paths |-> None]} ELSE ExifPatterns
    /\ sizeOf \in IF IsNone(args.exifW) THEN {[p \in Paths |-> 0]} ELSE SizePatterns
    /\ cand = [d \in Dirs |-> <<>>]
    /\ total_hash = 0
    /\ total_pairs = 0
    /\ items = <<>>
    /\ plist = <<>>
    /\ si = 1
    /\ tasks = NoTask
    /\ lock = 0
    /\ hash_done = 0
    /\ pair_done = 0
    /\ events = <<>>
    /\ notified = <<>>
    /\ result = <<>>
    /\ compared = {}
    /\ groups = <<>>
    /\ keep = "newer"
    /\ to_delete = <<>>
    /\ prev = None
    /\ on_disk = Paths

\* The entry of the call, up to the hash loop: the paths and, in the EXIF
\* branch, the candidate pairs of each folder.
TwiceEnter ==
    /\ pc = "start"
    /\ LET ps == collect_image_paths(args.isDir, args.recursive) IN
       /\ paths' = ps
       /\ total_hash' = Len(ps)
       /\ cand' = [d \in Dirs |->
                     IF exif_branch
                     THEN exif_sorted_candidate_pairs(by_dir(ps, d), Val(args.exifW), exifOf, sizeOf)
                     ELSE <<>>]
    /\ pc' = "seq_hash"
    /\ UNCHANGED <<args, fnameTime, hashed, hashOf, total_pairs, items, plist, si,
                   tasks, lock, hash_done, pair_done, events, notified, result,
                   compared, groups, exifOf, keep, to_delete, sizeOf, prev,
                   on_disk>>

\* The hash loop and the compare loops of the call, to its return.
TwiceLoops ==
    /\ pc = "seq_hash"
    /\ hashed' = SeqSet(paths)
    /\ items' = HashedOf(SeqOrder(paths), hashOf)
    /\ plist' = SeqPairList(paths, hashOf)
    /\ total_pairs' = SeqTotalPairs(paths, hashOf)
    /\ result' = SeqResult(paths, hashOf)
    /\ pc' = "returned"
    /\ UNCHANGED <<args, paths, fnameTime, hashOf, cand, total_hash, si, tasks,
                   lock, hash_done, pair_done, events, notified, compared, groups,
                   exifOf, keep, to_delete, sizeOf, prev,
                   on_disk>>

\* The caller keeps the result and calls again with one argument changed.
TwiceAgain ==
    /\ pc = "returned"
    /\ IsNone(prev)
    /\ prev' = Some([args |-> args, result |-> result])
    /\ args' \in SecondCalls(args)
    /\ pc' = "start"
    /\ paths' = <<>>
    /\ hashed' = {}
    /\ cand' = [d \in Dirs |-> <<>>]
    /\ total_hash' = 0
    /\ total_pairs' = 0
    /\ items' = <<>>
    /\ plist' = <<>>
    /\ result' = <<>>
    /\ UNCHANGED <<fnameTime, hashOf, si, tasks, lock, hash_done, pair_done,
                   events, notified, compared, groups, exifOf, keep, to_delete,
                   sizeOf, on_disk>>

TwiceNext ==
    \/ TwiceEnter
    \/ TwiceLoops
    \/ TwiceAgain

SpecTwice == TwiceInit /\ [][TwiceNext]_vars

\* ------------------------------ _exif_sorted_candidate_pairs on one folder
\* The function applied to the files of one folder (any subset of the
\* files, in path order), with the EXIF times and sizes it reads for them
\* and a window of 60 or 100 seconds.
ExifWindows == {60, 100}
CandCalls ==
    {[api |-> "find_similar_pairs_with_scores", isDir |-> TRUE, recursive |-> TRUE,
      level |-> 2, threshold |-> None, fast |-> TRUE, exifW |-> Some(w),
      timeW |-> None, threads |-> 1, cb |-> "none"] : w \in ExifWindows}
CandInit ==
    /\ args \in CandCalls
    /\ pc = "start"
    /\ paths \in {SeqOfSet(S) : S \in SUBSET Paths}
    /\ exifOf \in [Paths -> ExifTimes]
    /\ sizeOf \in [Paths -> FileSizes]
    /\ fnameTime = [p \in Paths |-> None]
    /\ hashed = {}
    /\ hashOf = [p \in Paths |-> None]
    /\ cand = [d \in Dirs |-> <<>>]
    /\ total_hash = 0
    /\ total_pairs = 0
    /\ items = <<>>
    /\ plist = <<>>
    /\ si = 1
    /\ tasks = NoTask
    /\ lock = 0
    /\ hash_done = 0
    /\ pair_done = 0
    /\ events = <<>>
    /\ notified = <<>>
    /\ result = <<>>
    /\ compared = {}
    /\ groups = <<>>
    /\ keep = "newer"
    /\ to_delete = <<>>
    /\ prev = None
    /\ on_disk = Paths

\* dir_candidate_pairs[_dir] = _exif_sorted_candidate_pairs(group, W)
CandidatePairs ==
    /\ pc = "start"
    /\ plist' = exif_sorted_candidate_pairs(paths, Val(args.exifW), exifOf, sizeOf)
    /\ pc' = "returned"
    /\ UNCHANGED <<args, paths, fnameTime, hashed, hashOf, cand, total_hash,
                   total_pairs, items, si, tasks, lock, hash_done, pair_done,
                   events, notified, result, compared, groups, exifOf, keep,
                   to_delete, sizeOf, prev,
                   on_disk>>

CandNext == CandidatePairs

SpecCand == CandInit /\ [][CandNext]_vars

\* ------------------------------------------- compare_dirs on any two roots
\* compare_dirs(dir1, dir2): each of the two roots is the root of the corpus
\* or its subfolder, so that the roots can be disjoint (root and sub, not
\* recursive), nested (root and sub, recursive) or the same directory.
DirCalls ==
    [api : {"compare_dirs"}, isDir : {TRUE}, recursive : BOOLEAN, level : {2},
     threshold : {None, Some(16)}, fast : {FALSE}, exifW : {None}, timeW : {None},
     threads : {1}, cb : {"none"}, dir1 : Roots, dir2 : Roots]

DirsInit ==
    /\ args \in DirCalls
    /\ pc = "start"
    /\ paths = <<>>
    /\ hashOf \in [Paths -> HashOutcomes]
    /\ fnameTime = [p \in Paths |-> None]
    /\ hashed = {}
    /\ cand = [d \in Dirs |-> <<>>]
    /\ total_hash = 0
    /\ total_pairs = 0
    /\ items = <<>>
    /\ plist = <<>>
    /\ si = 1
    /\ tasks = NoTask
    /\ lock = 0
    /\ hash_done = 0
    /\ pair_done = 0
    /\ events = <<>>
    /\ notified = <<>>
    /\ result = <<>>
    /\ compared = {}
    /\ groups = <<>>
    /\ exifOf = <<>>
    /\ keep = "newer"
    /\ to_delete = <<>>
    /\ sizeOf = <<>>
    /\ prev = None
    /\ on_disk = Paths

\* compare_dirs from its entry to its return: the two path lists, the two
\* hash loops, the nested compare loops.
CompareDirs ==
    /\ pc = "start"
    /\ LET paths1 == collect_under(args.dir1, args.recursive)
           paths2 == collect_under(args.dir2, args.recursive)
           pl == CrossPairs(HashedOf(paths1, hashOf), HashedOf(paths2, hashOf))
       IN IF paths1 = <<>> \/ paths2 = <<>>
          THEN UNCHANGED <<paths, hashed, items, plist, total_hash, total_pairs,
                           pair_done, compared, result>>
          ELSE /\ paths' = paths1 \o paths2
               /\ hashed' = SeqSet(paths1) \cup SeqSet(paths2)
               /\ items' = HashedOf(paths1, hashOf) \o HashedOf(paths2, hashOf)
               /\ plist' = pl
               /\ total_hash' = Len(paths1) + Len(paths2)
               /\ total_pairs' = Len(HashedOf(paths1, hashOf)) * Len(HashedOf(paths2, hashOf))
               /\ pair_done' = Len(pl)
               /\ compared' = SeqSet(pl)
               /\ result' = Concat([k \in 1..Len(pl) |-> Kept(pl[k][1], pl[k][2], hashOf)])
    /\ pc' = "returned"
    /\ UNCHANGED <<args, fnameTime, hashOf, cand, si, tasks, lock, hash_done,
                   events, notified, groups, exifOf, keep, to_delete, sizeOf, prev,
                   on_disk>>

DirsNext == CompareDirs

SpecDirs == DirsInit /\ [][DirsNext]_vars

\* ----------------------------------------- pairs_to_groups on any pair list
\* pairs_to_groups applied to a list of up to MaxPairs triples over the
\* paths of the larger corpus: any two paths in a triple, in any order, the
\* same path twice included, and any triple more than once.
MaxPairs == NumFiles
PairLists ==
    UNION {[1..n -> {<<a, b, HASH_BITS>> : a, b \in MergePaths}] : n \in 0..MaxPairs}
GroupsInit ==
    /\ args \in MergeCalls
    /\ pc = "returned"
    /\ result \in PairLists
    /\ paths = SeqOfSet(MergePaths)
    /\ fnameTime = [p \in MergePaths |-> None]
    /\ hashed = {}
    /\ hashOf = [p \in MergePaths |-> None]
    /\ cand = [d \in Dirs |-> <<>>]
    /\ total_hash = 0
    /\ total_pairs = 0
    /\ items = <<>>
    /\ plist = <<>>
    /\ si = 1
    /\ tasks = NoTask
    /\ lock = 0
    /\ hash_done = 0
    /\ pair_done = 0
    /\ events = <<>>
    /\ notified = <<>>
    /\ compared = {}
    /\ groups = <<>>
    /\ exifOf = <<>>
    /\ keep = "newer"
    /\ to_delete = <<>>
    /\ sizeOf = <<>>
    /\ prev = None
    /\ on_disk = MergePaths

GroupsNext == PairsToGroups

SpecGroups == GroupsInit /\ [][GroupsNext]_vars

\* ------------------------- get_files_to_delete_from_groups on any clusters
\* The function applied to a list of up to two clusters of the larger
\* corpus: every cluster lists two or more distinct paths in any order, and
\* no path is in two clusters.
Listings(S) ==
    {f \in [1..Cardinality(S) -> S] : \A i, j \in DOMAIN f : f[i] = f[j] => i = j}
Clusters == UNION {Listings(S) : S \in {T \in SUBSET MergePaths : Cardinality(T) >= 2}}
GroupLists ==
    {<<>>} \cup {<<g>> : g \in Clusters}
           \cup {<<gh[1], gh[2]>> :
                    gh \in {c \in Clusters \X Clusters : SeqSet(c[1]) \cap SeqSet(c[2]) = {}}}
KeepInit ==
    /\ args \in MergeCalls
    /\ pc = "grouped"
    /\ groups \in GroupLists
    /\ paths = SeqOfSet(MergePaths)
    /\ fnameTime = [p \in MergePaths |-> None]
    /\ hashed = {}
    /\ hashOf = [p \in MergePaths |-> None]
    /\ cand = [d \in Dirs |-> <<>>]
    /\ total_hash = 0
    /\ total_pairs = 0
    /\ items = <<>>
    /\ plist = <<>>
    /\ si = 1
    /\ tasks = NoTask
    /\ lock = 0
    /\ hash_done = 0
    /\ pair_done = 0
    /\ events = <<>>
    /\ notified = <<>>
    /\ result = <<>>
    /\ compared = {}
    /\ exifOf = <<>>
    /\ keep = "newer"
    /\ to_delete = <<>>
    /\ sizeOf = <<>>
    /\ prev = None
    /\ on_disk = MergePaths

SpecKeep == KeepInit /\ [][GetFilesToDelete]_vars

\* -------------------------------------------------------- similarity_score
\* similarity_score applied to any two hashes and a number of bits.  The
\* score is kept as its numerator over bits; for bits a power of two the
\* float 1.0 - d / bits is that fraction exactly.
ScoreCalls ==
    [api : {"similarity_score"},
     h1 : HashPool \cup {{1}, {2}, 1..16, 1..HASH_BITS},
     h2 : HashPool \cup {{1}, {2}, 1..16, 1..HASH_BITS},
     bits : {16, 64, HASH_BITS}]
ScoreInit ==
    /\ args \in ScoreCalls
    /\ pc = "start"
    /\ paths = <<>>
    /\ fnameTime = <<>>
    /\ hashed = {}
    /\ hashOf = <<>>
    /\ cand = [d \in Dirs |-> <<>>]
    /\ total_hash = 0
    /\ total_pairs = 0
    /\ items = <<>>
    /\ plist = <<>>
    /\ si = 1
    /\ tasks = NoTask
    /\ lock = 0
    /\ hash_done = 0
    /\ pair_done = 0
    /\ events = <<>>
    /\ notified = <<>>
    /\ result = <<>>
    /\ compared = {}
    /\ groups = <<>>
    /\ exifOf = <<>>
    /\ keep = "newer"
    /\ to_delete = <<>>
    /\ sizeOf = <<>>
    /\ prev = None
    /\ on_disk = {}

similarity_score_call ==
    /\ pc = "start"
    /\ result' = <<similarity_score(args.h1, args.h2, args.bits)>>
    /\ pc' = "returned"
    /\ UNCHANGED <<args, paths, fnameTime, hashed, hashOf, cand, total_hash,
                   total_pairs, items, plist, si, tasks, lock, hash_done,
                   pair_done, events, notified, compared, groups, exifOf, keep,
                   to_delete, sizeOf, prev, on_disk>>

\* s == 1.0, for a score s over bits.
duplicate(s, bits) == s = bits

SpecScore == ScoreInit /\ [][similarity_score_call]_vars

\* --------------------------------------------- parse_datetime_from_filename
\* A stem is a sequence of characters: 0..9 for the digits, Underscore for
\* "_", Letter for any other character.
Underscore == 10
Letter == 11
DigitsOf(n, w) == [k \in 1..w |-> (n \div (10 ^ (w - k))) % 10]
DigitsAt(s, i, n) == i + n - 1 <= Len(s) /\ \A k \in i..(i + n - 1) : s[k] \in 0..9
\* int(s[i:i+n])
RECURSIVE IntAt(_, _, _)
IntAt(s, i, n) == IF n = 0 THEN 0 ELSE 10 * IntAt(s, i, n - 1) + s[i + n - 1]
\* _FNAME_DATETIME.search(stem), _FNAME_DATE.search(stem): where the
\* leftmost match starts.
FNAME_DATETIME_search(s) ==
    LET ms == {i \in 1..Len(s) : /\ DigitsAt(s, i, 8)
                                  /\ i + 8 <= Len(s)
                                  /\ s[i + 8] = Underscore
                                  /\ DigitsAt(s, i + 9, 6)}
    IN IF ms = {} THEN None ELSE Some(CHOOSE i \in ms : \A j \in ms : i <= j)
FNAME_DATE_search(s) ==
    LET ms == {i \in 1..Len(s) : DigitsAt(s, i, 8)}
    IN IF ms = {} THEN None ELSE Some(CHOOSE i \in ms : \A j \in ms : i <= j)
\* datetime(y, mo, d, h, mi, s) does not raise ValueError.
DaysInMonth(y, mo) ==
    IF mo = 2 THEN (IF y % 4 = 0 /\ (y % 100 # 0 \/ y % 400 = 0) THEN 29 ELSE 28)
    ELSE IF mo \in {4, 6, 9, 11} THEN 30 ELSE 31
datetime_ok(y, mo, d, h, mi, sec) ==
    /\ y \in 1..9999 /\ mo \in 1..12 /\ d >= 1 /\ d <= DaysInMonth(y, mo)
    /\ h \in 0..23 /\ mi \in 0..59 /\ sec \in 0..59
parse_datetime_from_filename(s) ==
    LET m1 == FNAME_DATETIME_search(s)
        m2 == FNAME_DATE_search(s)
        full == <<IntAt(s, Val(m1), 4), IntAt(s, Val(m1) + 4, 2), IntAt(s, Val(m1) + 6, 2),
                  IntAt(s, Val(m1) + 9, 2), IntAt(s, Val(m1) + 11, 2), IntAt(s, Val(m1) + 13, 2)>>
        date == <<IntAt(s, Val(m2), 4), IntAt(s, Val(m2) + 4, 2), IntAt(s, Val(m2) + 6, 2), 0, 0, 0>>
    IN IF ~IsNone(m1) /\ datetime_ok(full[1], full[2], full[3], full[4], full[5], full[6])
       THEN Some(full)
       ELSE IF ~IsNone(m2) /\ datetime_ok(date[1], date[2], date[3], 0, 0, 0)
       THEN Some(date)
       ELSE None

\* The stems: an optional leading character, eight digits, an optional
\* "_" and five or six digits, an optional "_" and eight more digits.
Stems ==
    {pre \o DigitsOf(dt, 8) \o tl \o suf :
        pre \in {<<>>, <<Letter>>, <<1>>},
        dt \in {20240101, 20241301, 20230229, 20240229},
        tl \in {<<>>, <<Underscore>> \o DigitsOf(12000, 5)}
               \cup {<<Underscore>> \o DigitsOf(t, 6) : t \in {120000, 250000, 126000, 235959}},
        suf \in {<<>>, <<Underscore>> \o DigitsOf(20240102, 8)}}
ParseInit ==
    /\ args \in [api : {"parse_datetime_from_filename"}, stem : Stems]
    /\ pc = "start"
    /\ paths = <<>>
    /\ fnameTime = <<>>
    /\ hashed = {}
    /\ hashOf = <<>>
    /\ cand = [d \in Dirs |-> <<>>]
    /\ total_hash = 0
    /\ total_pairs = 0
    /\ items = <<>>
    /\ plist = <<>>
    /\ si = 1
    /\ tasks = NoTask
    /\ lock = 0
    /\ hash_done = 0
    /\ pair_done = 0
    /\ events = <<>>
    /\ notified = <<>>
    /\ result = <<>>
    /\ compared = {}
    /\ groups = <<>>
    /\ exifOf = <<>>
    /\ keep = "newer"
    /\ to_delete = <<>>
    /\ sizeOf = <<>>
    /\ prev = None
    /\ on_disk = {}

parse_datetime_from_filename_call ==
    /\ pc = "start"
    /\ result' = parse_datetime_from_filename(args.stem)
    /\ pc' = "returned"
    /\ UNCHANGED <<args, paths, fnameTime, hashed, hashOf, cand, total_hash,
                   total_pairs, items, plist, si, tasks, lock, hash_done,
                   pair_done, events, notified, compared, groups, exifOf, keep,
                   to_delete, sizeOf, prev, on_disk>>

SpecParse == ParseInit /\ [][parse_datetime_from_filename_call]_vars

\* ------------------------------------------ main: the single-directory run
\* The command line on one directory, in full mode, with --yes (every
\* deletion is confirmed) and without --json: any combination of --dedupe
\* and --del-similar-over.
CliCalls ==
    [api : {"main"}, isDir : {TRUE}, recursive : {TRUE}, level : {2},
     threshold : {None}, fast : {FALSE}, exifW : {None}, timeW : {None},
     threads : {1}, cb : {"none"},
     dedupe : {None, Some("newer"), Some("older")},
     del_similar_over : {None, Some(90), Some(100)}]
\* get_exif_datetime on the files of the disk: None for a path that is not
\* a file (any more).
exif_on(disk, ex) == [p \in DOMAIN ex |-> IF p \in disk THEN ex[p] ELSE None]
\* for p in to_delete: p.unlink(missing_ok=True)
unlink(disk, list) == disk \ SeqSet(list)
duplicate_pairs(pairs) == SelectSeq(pairs, LAMBDA t : duplicate(t[3], HASH_BITS))
\* s >= pct / 100.0 for pct = max(0, min(100, int(args.del_similar_over)))
high_pairs(pairs, over) ==
    SelectSeq(pairs, LAMBDA t : 100 * t[3] >= Max(0, Min(100, over)) * HASH_BITS)
CliInit ==
    /\ args \in CliCalls
    /\ pc = "start"
    /\ paths = <<>>
    /\ fnameTime = <<>>
    /\ hashed = {}
    /\ hashOf \in [Paths -> {Some(h) : h \in HashPool}]
    /\ cand = [d \in Dirs |-> <<>>]
    /\ total_hash = 0
    /\ total_pairs = 0
    /\ items = <<>>
    /\ plist = <<>>
    /\ si = 1
    /\ tasks = NoTask
    /\ lock = 0
    /\ hash_done = 0
    /\ pair_done = 0
    /\ events = <<>>
    /\ notified = <<>>
    /\ result = <<>>
    /\ compared = {}
    /\ groups = <<>>
    /\ exifOf \in [Paths -> ExifTimes]
    /\ keep = "newer"
    /\ to_delete = <<>>
    /\ sizeOf = <<>>
    /\ prev = None
    /\ on_disk = Paths

main_single_directory ==
    /\ pc = "start"
    /\ LET ps == collect_image_paths(args.isDir, args.recursive)
           pairs == SeqResult(ps, hashOf)
           dup_to_delete ==
               get_files_to_delete_from_groups(pairs_to_groups(duplicate_pairs(pairs)),
                                               "older", exif_on(on_disk, exifOf))
           dedupe_to_delete ==
               IF IsNone(args.dedupe) THEN <<>>
               ELSE get_files_to_delete_from_groups(pairs_to_groups(pairs), Val(args.dedupe),
                                                    exif_on(on_disk, exifOf))
           disk1 == unlink(on_disk, dedupe_to_delete)
           to_delete_sim ==
               IF IsNone(args.del_similar_over) THEN <<>>
               ELSE get_files_to_delete_from_groups(
                        pairs_to_groups(high_pairs(pairs, Val(args.del_similar_over))),
                        "older", exif_on(disk1, exifOf))
           disk2 == unlink(disk1, to_delete_sim)
           last == IF IsNone(args.del_similar_over) THEN dup_to_delete ELSE <<>>
       IN /\ paths' = ps
          /\ result' = pairs
          /\ groups' = pairs_to_groups(pairs)
          /\ to_delete' = dedupe_to_delete \o to_delete_sim \o last
          /\ on_disk' = unlink(disk2, last)
    /\ pc' = "returned"
    /\ UNCHANGED <<args, fnameTime, hashed, hashOf, cand, total_hash,
                   total_pairs, items, plist, si, tasks, lock, hash_done,
                   pair_done, events, notified, compared, exifOf, keep, sizeOf,
                   prev>>

SpecCli == CliInit /\ [][main_single_directory]_vars

\* ------------------------------------------------- main: -r (pairs by line)
\* The command line with -r FILE, --keep-in-line and --yes: the file holds
\* one or two lines "path1, path2" over the files of the corpus, any two
\* paths on a line.
ReadCalls ==
    [api : {"main -r"}, isDir : {TRUE}, recursive : {TRUE}, level : {2},
     threshold : {None}, fast : {FALSE}, exifW : {None}, timeW : {None},
     threads : {1}, cb : {"none"},
     keep_in_line : {"first", "second"},
     lines : {<<l>> : l \in Paths \X Paths}
               \cup {<<l[1], l[2]>> : l \in (Paths \X Paths) \X (Paths \X Paths)}]
compare_two_images(path1, path2, hf) ==
    IF IsNone(hf[path1]) \/ IsNone(hf[path2]) THEN None
    ELSE Some(<<similarity_score(Val(hf[path1]), Val(hf[path2]), HASH_BITS),
                Hamming(Val(hf[path1]), Val(hf[path2]))>>)
ReadInit ==
    /\ args \in ReadCalls
    /\ pc = "start"
    /\ paths = <<>>
    /\ fnameTime = <<>>
    /\ hashed = {}
    /\ hashOf \in [Paths -> {None, Some({}), Some(1..31)}]
    /\ cand = [d \in Dirs |-> <<>>]
    /\ total_hash = 0
    /\ total_pairs = 0
    /\ items = <<>>
    /\ plist = <<>>
    /\ si = 1
    /\ tasks = NoTask
    /\ lock = 0
    /\ hash_done = 0
    /\ pair_done = 0
    /\ events = <<>>
    /\ notified = <<>>
    /\ result = <<>>
    /\ compared = {}
    /\ groups = <<>>
    /\ exifOf = <<>>
    /\ keep = "newer"
    /\ to_delete = <<>>
    /\ sizeOf = <<>>
    /\ prev = None
    /\ on_disk = Paths

main_read_from_file ==
    /\ pc = "start"
    /\ LET results == [i \in 1..Len(args.lines) |->
                          compare_two_images(args.lines[i][1], args.lines[i][2], hashOf)]
           drop(i) == IF ~IsNone(results[i]) /\ Val(results[i])[2] <= ham
                      THEN << IF args.keep_in_line = "first" THEN args.lines[i][2]
                              ELSE args.lines[i][1] >>
                      ELSE <<>>
           dropped == Concat([i \in 1..Len(args.lines) |-> drop(i)])
       IN /\ to_delete' = dropped
          /\ on_disk' = unlink(on_disk, dropped)
    /\ pc' = "returned"
    /\ UNCHANGED <<args, paths, fnameTime, hashed, hashOf, cand, total_hash,
                   total_pairs, items, plist, si, tasks, lock, hash_done,
                   pair_done, events, notified, result, compared, groups,
                   exifOf, keep, sizeOf, prev>>

SpecRead == ReadInit /\ [][main_read_from_file]_vars

\* ------------------------------------------------------------- properties
PhaseEvents(phase) == SelectSeq(events, LAMBDA e : e.phase = phase)
Unordered(s) == {{s[i][1], s[i][2]} : i \in 1..Len(s)}
FolderOf(p) == {q \in SeqSet(paths) : Dir(q) = Dir(p)}
threaded == args.threads > 1

\* C1 (as claimed): in every mode and for every num_threads, no pair is
\* compared before the hash of every collected file has finished.
C1_CompareAfterAllHashes == compared # {} => hashed = SeqSet(paths)

\* C1 (amended): outside the multithreaded fast path no pair is compared
\* before every collected file has been hashed; in the multithreaded fast
\* path a pair is compared only after every file of its own folder has been
\* hashed.
C1_CompareAfterHashesOfItsPool ==
    /\ (compared # {} /\ ~(fast_path /\ threaded)) => hashed = SeqSet(paths)
    /\ \A pr \in compared : FolderOf(pr[1]) \subseteq hashed \/ ~fast_path
C1_Witness ==
    /\ ~fast_path /\ threaded /\ pc = "as_completed"
    /\ compared # {}
    /\ \E t \in 1..Len(tasks) : tasks[t].status = "running"

\* C2: the progress callback never runs in two worker threads at once; a
\* thread inside it holds the lock, and the current it passes is the value
\* its own increment of the counter produced.
C2_SinkNeverConcurrent ==
    /\ Cardinality({t \in 1..Len(tasks) : tasks[t].incb}) <= 1
    /\ \A t \in 1..Len(tasks) : tasks[t].incb => lock = t
    /\ \A t \in 1..Len(tasks) :
         tasks[t].incb =>
            tasks[t].cur = (IF tasks[t].ph = "hash" THEN hash_done ELSE pair_done) - 1
C2_Witness ==
    \E t, u \in 1..Len(tasks) :
        /\ t # u
        /\ tasks[t].incb
        /\ tasks[u].status = "running" /\ ~tasks[u].incb

C4_UpdatesReachTotal ==
    (pc = "returned" /\ pairs_api /\ args.cb # "none") =>
        /\ Len(PhaseEvents("hash")) = total_hash
        /\ Len(PhaseEvents("compare")) = total_pairs
        /\ \A i \in 1..Len(events) :
             events[i].total = IF events[i].phase = "hash" THEN total_hash ELSE total_pairs

\* C5: with threads > 1 the call returns the same set of triples as the
\* sequential path on the same corpus (and the sequential loops return
\* them in the order of the loops).
C5_ThreadedEqualsSequential ==
    (pc = "returned" /\ pairs_api) =>
        /\ SeqSet(result) = SeqSet(SeqResult(paths, hashOf))
        /\ ~threaded => result = SeqResult(paths, hashOf)
C5_Witness ==
    /\ pc = "returned" /\ pairs_api /\ threaded
    /\ Len(result) >= 2
    /\ Len(result) < Len(SeqPairList(paths, hashOf))

\* C7: when the call has returned or raised, no task of its pool is queued
\* or running, none is inside the sink, and the lock is free.
C7_NoTaskOutlivesTheCall ==
    pc \in {"returned", "raised"} =>
        /\ \A t \in 1..Len(tasks) : tasks[t].status \in {"done", "failed", "cancelled"}
        /\ \A t \in 1..Len(tasks) : ~tasks[t].incb
        /\ lock = 0
C7_Witness ==
    /\ pc = "raised"
    /\ \E t, u \in 1..Len(tasks) :
         /\ tasks[t].status = "failed" /\ tasks[t].consumed
         /\ tasks[u].status = "done" /\ ~tasks[u].consumed

\* C8: the result holds no triple with path_a = path_b and at most one
\* triple over any two paths.
C8_PairsUnique ==
    /\ \A i \in 1..Len(result) : result[i][1] # result[i][2]
    /\ \A i, j \in 1..Len(result) :
         i # j => {result[i][1], result[i][2]} # {result[j][1], result[j][2]}
C8_Witness ==
    /\ pc = "returned" /\ pairs_api /\ threaded /\ ~fast_path
    /\ Len(result) = PairCount(NumFiles)

\* The unordered pairs of hashed files within the effective threshold.
SimilarPairs(hf) ==
    {pq \in SUBSET {p \in SeqSet(paths) : ~IsNone(hf[p])} :
        /\ Cardinality(pq) = 2
        /\ \E p, q \in pq : p # q /\ Hamming(Val(hf[p]), Val(hf[q])) <= EffectiveThreshold(args.threshold, args.level)}

\* C9: full mode (no fast mode, no time window): the result is exactly the
\* unordered pairs of hashed files within the threshold, each once, with
\* its similarity.
C9_FullModeExact ==
    (pc = "returned" /\ pairs_api /\ ~fast_path /\ IsNone(args.timeW)) =>
        /\ Unordered(result) = SimilarPairs(hashOf)
        /\ Len(result) = Cardinality(SimilarPairs(hashOf))
        /\ \A i \in 1..Len(result) :
             result[i][3] = Max(0, HASH_BITS - Hamming(Val(hashOf[result[i][1]]), Val(hashOf[result[i][2]])))
C9_Witness ==
    /\ pc = "returned" /\ pairs_api /\ ~fast_path /\ IsNone(args.timeW) /\ threaded
    /\ Len(items) = NumFiles
    /\ Len(result) >= 1
    /\ Len(result) < PairCount(Len(items))
    /\ \E i \in 1..Len(result) : result[i][3] < HASH_BITS

\* The pairs of the run in which as_completed yields the chunk results in
\* submission order.
InOrderResult == Concat([t \in 1..Len(tasks) |-> tasks[t].res])

\* C6 (as claimed): whatever order as_completed yields the chunk results
\* in, the clusters and the delete list are those of the run in which it
\* yields them in submission order.
C6_SameClustersAndDeleteList ==
    pc = "selected" =>
        /\ SeqSet(groups) = SeqSet(pairs_to_groups(InOrderResult))
        /\ to_delete = get_files_to_delete_from_groups(pairs_to_groups(InOrderResult), keep, exifOf)

\* What the description of the core calls invalid arguments.
InvalidArgs(a) ==
    \/ ~a.isDir
    \/ ~IsNone(a.threshold) /\ Val(a.threshold) < 0
    \/ IsNone(a.threshold) /\ a.level \notin {1, 2, 3}

\* C10 (as claimed): with invalid arguments none of the three entry points
\* returns normally.
C10_InvalidArgsFail == InvalidArgs(args) => pc # "returned"

\* The pairs of the compare loops that are within the threshold of level 2.
Level2Pairs(ps, hf) ==
    SelectSeq(SeqPairList(ps, hf),
              LAMBDA pr : Hamming(Val(hf[pr[1]]), Val(hf[pr[2]])) <= LEVEL_DEFAULTS[2])

\* C10 (amended): invalid arguments raise nothing.  A root that is no
\* directory and a negative threshold give the empty result; a level
\* outside {1, 2, 3} with no threshold gives the result of level 2.
C10_InvalidArgsGiveDefaults ==
    InvalidArgs(args) =>
        /\ pc # "raised"
        /\ (pc = "returned" /\ ~args.isDir) => (result = <<>> /\ groups = <<>>)
        /\ (pc = "returned" /\ ~IsNone(args.threshold) /\ Val(args.threshold) < 0)
             => (result = <<>> /\ groups = <<>>)
        /\ (pc = "returned" /\ args.isDir /\ IsNone(args.threshold))
             => /\ ~groups_api =>
                     result = [k \in 1..Len(Level2Pairs(paths, hashOf)) |->
                                 Triple(Level2Pairs(paths, hashOf)[k][1],
                                        Level2Pairs(paths, hashOf)[k][2], hashOf)]
                /\ groups_api =>
                     groups = GroupsOf(UnionAll(SelfParent(items), Level2Pairs(paths, hashOf)))
C10_Witness ==
    /\ pc = "returned" /\ InvalidArgs(args)
    /\ args.isDir /\ IsNone(args.threshold)
    /\ Len(items) = NumFiles
    /\ \E p, q \in SeqSet(items) :
         /\ Hamming(Val(hashOf[p]), Val(hashOf[q])) > LEVEL_DEFAULTS[2]
         /\ Hamming(Val(hashOf[p]), Val(hashOf[q])) <= LEVEL_DEFAULTS[3]
    /\ result # <<>> \/ groups # <<>>

\* The second call of the corpus has returned, and its arguments are those
\* of the first call but for the field named.
SecondReturned == pc = "returned" /\ ~IsNone(prev)
FirstArgs == Val(prev).args
FirstResult == Val(prev).result

\* C11: the effective threshold is the explicit threshold when one is
\* given, whatever the level, otherwise 5, 15, 25 for level 1, 2, 3 and 15
\* for any other level; it does not change while the call runs; and with no
\* explicit threshold the result at a level in {1, 2, 3} is a subset of the
\* result, on the same corpus, at a higher level.
C11_ThresholdPolicy ==
    /\ [](/\ ham = (IF ~IsNone(args.threshold) THEN Val(args.threshold)
                     ELSE IF args.level = 1 THEN 5
                     ELSE IF args.level = 3 THEN 25
                     ELSE 15)
          /\ (/\ SecondReturned
              /\ IsNone(args.threshold)
              /\ FirstArgs.level \in {1, 2, 3}
              /\ FirstArgs.level < args.level
              /\ FirstArgs = [args EXCEPT !.level = FirstArgs.level])
             => SeqSet(FirstResult) \subseteq SeqSet(result))
    /\ [][pc # "returned" => ham' = ham]_vars
C11_Witness ==
    /\ SecondReturned
    /\ IsNone(args.threshold)
    /\ FirstArgs = [args EXCEPT !.level = 1]
    /\ args.level = 3
    /\ Len(FirstResult) >= 1
    /\ Len(result) > Len(FirstResult)
    /\ \E i \in 1..Len(result) :
         Hamming(Val(hashOf[result[i][1]]), Val(hashOf[result[i][2]])) > LEVEL_DEFAULTS[2]

\* The ordered path pairs of a list of triples.
PairsOf(res) == {<<res[i][1], res[i][2]>> : i \in 1..Len(res)}

\* C12: on the same corpus and with the same mode and windows, the pairs
\* returned at a threshold t are among the pairs returned at any threshold
\* t' >= t (find_similar_pairs_with_scores and compare_dirs).
C12_ThresholdMonotone ==
    (/\ SecondReturned
     /\ ~IsNone(args.threshold) /\ ~IsNone(FirstArgs.threshold)
     /\ Val(FirstArgs.threshold) <= Val(args.threshold)
     /\ FirstArgs = [args EXCEPT !.threshold = FirstArgs.threshold])
    => PairsOf(FirstResult) \subseteq PairsOf(result)
C12_Witness ==
    /\ SecondReturned
    /\ FirstArgs = [args EXCEPT !.threshold = Some(15)]
    /\ args.threshold = Some(16)
    /\ Len(FirstResult) >= 1
    /\ Len(result) > Len(FirstResult)
    /\ Len(result) < Len(plist)

\* Both names carry a timestamp, and the two are more than w seconds apart.
NamesApart(p1, p2, w) ==
    /\ ~IsNone(fnameTime[p1]) /\ ~IsNone(fnameTime[p2])
    /\ Abs(Val(fnameTime[p1]) - Val(fnameTime[p2])) > w

\* C13 (as claimed): with time_window_seconds = W, in every mode (full,
\* fast, fast with an EXIF window) and for every num_threads, no returned
\* pair has two filename timestamps that both parse and differ by more than
\* W; and a pair of the compare loops with an unparseable filename
\* timestamp (both files hashed, within the threshold) is returned.
C13_TimeWindowRespected ==
    (pairs_api /\ ~IsNone(args.timeW)) =>
        /\ \A i \in 1..Len(result) :
             ~NamesApart(result[i][1], result[i][2], Val(args.timeW))
        /\ pc = "returned" =>
             \A k \in 1..Len(SeqPairList(paths, hashOf)) :
                LET p1 == SeqPairList(paths, hashOf)[k][1]
                    p2 == SeqPairList(paths, hashOf)[k][2]
                IN (/\ IsNone(fnameTime[p1]) \/ IsNone(fnameTime[p2])
                    /\ ~IsNone(hashOf[p1]) /\ ~IsNone(hashOf[p2])
                    /\ Within(p1, p2, hashOf))
                   => <<p1, p2>> \in PairsOf(result)

\* Two files of the folder: both with EXIF times at most W apart, or both
\* without EXIF.
ExifClose(p, q) ==
    /\ ~IsNone(exifOf[p]) /\ ~IsNone(exifOf[q])
    /\ Abs(Val(exifOf[p]) - Val(exifOf[q])) <= Val(args.exifW)
BothNoExif(p, q) == IsNone(exifOf[p]) /\ IsNone(exifOf[q])
\* Both sizes are known and differ by more than 5% of the smaller.
SizesFar(p, q) ==
    /\ sizeOf[p] > 0 /\ sizeOf[q] > 0
    /\ 100 * Abs(sizeOf[p] - sizeOf[q]) > 5 * Min(sizeOf[p], sizeOf[q])

\* C14: for a folder and W > 0 the candidate pairs are, but for the pairs
\* the size filter drops, exactly the pairs of EXIF-bearing files with EXIF
\* times at most W apart and the pairs of files both without EXIF, each
\* once: never a mixed pair, never an EXIF pair more than W apart, and no
\* pair within W is skipped.
C14_CandidatesExact ==
    pc = "returned" =>
        /\ \A k \in 1..Len(plist) :
             /\ plist[k][1] # plist[k][2]
             /\ {plist[k][1], plist[k][2]} \subseteq SeqSet(paths)
             /\ ExifClose(plist[k][1], plist[k][2]) \/ BothNoExif(plist[k][1], plist[k][2])
        /\ \A p, q \in SeqSet(paths) :
             (p # q /\ ~SizesFar(p, q) /\ (ExifClose(p, q) \/ BothNoExif(p, q)))
                => {p, q} \in Unordered(plist)
        /\ Cardinality(Unordered(plist)) = Len(plist)
C14_Witness ==
    /\ pc = "returned"
    /\ \E p, q, r \in SeqSet(paths) :
         /\ p < q /\ q < r
         /\ ~IsNone(exifOf[p]) /\ ~IsNone(exifOf[q]) /\ ~IsNone(exifOf[r])
         /\ Val(exifOf[q]) - Val(exifOf[p]) > Val(args.exifW)
         /\ {p, r} \in Unordered(plist)
         /\ {p, q} \notin Unordered(plist)

\* C15: a candidate pair is dropped by the size filter iff both sizes are
\* known (> 0) and differ by more than 5% of the smaller; size 0 (stat
\* failed) is unknown and no pair with an unknown size is dropped.
C15_SizeFilter ==
    pc = "returned" =>
        \A p, q \in SeqSet(paths) :
            (p # q /\ (ExifClose(p, q) \/ BothNoExif(p, q))) =>
                /\ {p, q} \notin Unordered(plist) <=> SizesFar(p, q)
                /\ (sizeOf[p] = 0 \/ sizeOf[q] = 0) => {p, q} \in Unordered(plist)
C15_Witness ==
    /\ pc = "returned"
    /\ \E p, q, r \in SeqSet(paths) :
         /\ ExifClose(p, q) /\ ExifClose(p, r) /\ ExifClose(q, r)
         /\ sizeOf[p] = 100 /\ sizeOf[q] = 106 /\ sizeOf[r] = 0
         /\ {p, q} \notin Unordered(plist)
         /\ {p, r} \in Unordered(plist)
         /\ {q, r} \in Unordered(plist)

\* C16 (as claimed): on the same corpus, with the same threshold and window
\* arguments, every pair returned with fast_same_folder_only = true is also
\* returned with fast_same_folder_only = false, and its two paths have the
\* same parent directory.
C16_FastInclusion ==
    (/\ SecondReturned
     /\ FirstArgs.fast /\ ~args.fast
     /\ FirstArgs = [args EXCEPT !.fast = TRUE])
    => /\ Unordered(FirstResult) \subseteq Unordered(result)
       /\ \A i \in 1..Len(FirstResult) : Dir(FirstResult[i][1]) = Dir(FirstResult[i][2])

\* C17 (as claimed): on the same corpus, with the same threshold and mode,
\* the result with a filename time window and/or an EXIF window set is a
\* subset of the result with that window unset.
C17_WindowedInclusion ==
    (/\ SecondReturned
     /\ FirstArgs.exifW # args.exifW \/ FirstArgs.timeW # args.timeW
     /\ FirstArgs = [args EXCEPT !.exifW = FirstArgs.exifW, !.timeW = FirstArgs.timeW])
    => Unordered(FirstResult) \subseteq Unordered(result)

\* The files collected under the first and under the second root.
Under1 == SeqSet(collect_under(args.dir1, args.recursive))
Under2 == SeqSet(collect_under(args.dir2, args.recursive))

\* C18 (as claimed): compare_dirs returns only cross-root pairs: the first
\* path of every triple was collected under dir1 and the second under dir2;
\* each pair (p1 under dir1, p2 under dir2) of hashed files within the
\* threshold is returned exactly once; and no pair of two files from the
\* same root is returned.
C18_CrossRootOnly ==
    pc = "returned" =>
        /\ \A i \in 1..Len(result) : result[i][1] \in Under1 /\ result[i][2] \in Under2
        /\ \A p1 \in Under1, p2 \in Under2 :
             (~IsNone(hashOf[p1]) /\ ~IsNone(hashOf[p2]) /\ Within(p1, p2, hashOf))
                => Cardinality({i \in 1..Len(result) :
                                  result[i][1] = p1 /\ result[i][2] = p2}) = 1
        /\ \A i \in 1..Len(result) :
             /\ ~({result[i][1], result[i][2]} \subseteq Under1)
             /\ ~({result[i][1], result[i][2]} \subseteq Under2)

\* The paths a chain of pairs of the list leads to from the paths of S.
RECURSIVE Reach(_, _)
Reach(S, prs) ==
    LET T == S \cup {q \in MergePaths :
                      \E i \in 1..Len(prs) :
                         \/ prs[i][1] \in S /\ prs[i][2] = q
                         \/ prs[i][2] \in S /\ prs[i][1] = q}
    IN IF T = S THEN S ELSE Reach(T, prs)
SameCluster(a, b) == \E g \in 1..Len(groups) : {a, b} \subseteq SeqSet(groups[g])
ClusterMates(a) == {b \in MergePaths : b # a /\ SameCluster(a, b)}

\* C19: pairs_to_groups puts two different paths in the same cluster iff a
\* chain of pairs of the input list (in either orientation, scores ignored)
\* connects them; the two paths of every input pair (a, b), a # b, are in
\* one cluster.
C19_ClustersAreComponents ==
    pc = "grouped" =>
        /\ \A a \in MergePaths : ClusterMates(a) = Reach({a}, result) \ {a}
        /\ \A i \in 1..Len(result) :
             result[i][1] # result[i][2] => SameCluster(result[i][1], result[i][2])
C19_Witness ==
    /\ pc = "grouped"
    /\ \E g \in 1..Len(groups) : \E a, c \in SeqSet(groups[g]) :
         /\ a # c
         /\ Len(groups[g]) = 3
         /\ \A i \in 1..Len(result) : {result[i][1], result[i][2]} # {a, c}
    /\ \E b \in MergePaths : \A g \in 1..Len(groups) : b \notin SeqSet(groups[g])

\* C20: for every pair list (repeated pairs, both orientations, self-pairs
\* included) the clusters are pairwise disjoint, each has at least 2
\* members, each lists its members in strictly ascending path order, and a
\* path that occurs only in self-pairs is in no cluster.
C20_ClustersWellFormed ==
    pc = "grouped" =>
        /\ \A g, h \in 1..Len(groups) :
             g # h => SeqSet(groups[g]) \cap SeqSet(groups[h]) = {}
        /\ \A g \in 1..Len(groups) :
             /\ Len(groups[g]) >= 2
             /\ \A k \in 1..(Len(groups[g]) - 1) : groups[g][k] < groups[g][k + 1]
        /\ \A a \in MergePaths :
             (\A i \in 1..Len(result) :
                 a \in {result[i][1], result[i][2]} => result[i][1] = result[i][2])
             => \A g \in 1..Len(groups) : a \notin SeqSet(groups[g])
C20_Witness ==
    /\ pc = "grouped"
    /\ groups # <<>>
    /\ \E i, j \in 1..Len(result) :
         /\ result[i][1] # result[i][2]
         /\ result[j] = <<result[i][2], result[i][1], result[i][3]>>
    /\ \E i \in 1..Len(result) :
         /\ result[i][1] = result[i][2]
         /\ \A j \in 1..Len(result) :
              result[i][1] \in {result[j][1], result[j][2]} => result[j][1] = result[j][2]

\* How often the path is in the list.
Occurrences(list, p) == Cardinality({i \in 1..Len(list) : list[i] = p})
Selected == pc = "selected"

\* C21: of every cluster given to get_files_to_delete_from_groups exactly
\* one member is absent from the delete list and every other member is in
\* it exactly once: the list never holds all the members of a cluster.
C21_OneKeptPerCluster ==
    Selected =>
        \A g \in 1..Len(groups) :
            /\ Cardinality({p \in SeqSet(groups[g]) : Occurrences(to_delete, p) = 0}) = 1
            /\ \A p \in SeqSet(groups[g]) : Occurrences(to_delete, p) <= 1
\* Reached: two clusters, one listed out of path order, and a delete list
\* of two paths.
C21_Witness ==
    /\ Selected
    /\ Len(groups) = 2
    /\ groups[1][1] > groups[1][2]
    /\ Len(to_delete) = 2

\* The member of the cluster that the delete list spares.
KeptOf(g) == CHOOSE p \in SeqSet(groups[g]) : Occurrences(to_delete, p) = 0
HasExif(p) == ~IsNone(exifOf[p])
WithExif(g) == {p \in SeqSet(groups[g]) : HasExif(p)}

\* C22: with keep = "newer" the kept member of a cluster has the maximum
\* EXIF time among the members that have EXIF, and a member without EXIF is
\* kept only if no member has EXIF; with keep = "older" a member without
\* EXIF is kept if there is one, otherwise the member with the minimum EXIF
\* time.
C22_RepresentativePolicy ==
    Selected =>
        \A g \in 1..Len(groups) :
            LET k == KeptOf(g)
                with == WithExif(g)
            IN /\ keep = "newer" /\ with # {} =>
                    /\ HasExif(k)
                    /\ \A p \in with : Val(exifOf[p]) <= Val(exifOf[k])
               /\ keep = "older" /\ with # SeqSet(groups[g]) => ~HasExif(k)
               /\ keep = "older" /\ with = SeqSet(groups[g]) =>
                    \A p \in with : Val(exifOf[k]) <= Val(exifOf[p])
\* Reached: under "older" a cluster whose first listed member has EXIF and
\* whose kept member has none.
C22_Witness ==
    /\ Selected
    /\ keep = "older"
    /\ Len(groups) >= 1
    /\ HasExif(groups[1][1])
    /\ ~HasExif(KeptOf(1))

\* The order of the key (has_exif, exif_time_or_min, path).
PathKeyLess(a, b) ==
    \/ KeyLess(exifOf, a, b)
    \/ ~KeyLess(exifOf, b, a) /\ a < b

\* C27 (as claimed): the kept member of a cluster is the last ("newer") or
\* the first ("older") under the key (has_exif, exif_time_or_min, path), so
\* it is the same for every order in which the members are listed.
C27_PathBreaksTies ==
    Selected =>
        \A g \in 1..Len(groups) :
            /\ \A p \in SeqSet(groups[g]) \ {KeptOf(g)} :
                   IF keep = "newer" THEN PathKeyLess(p, KeptOf(g))
                   ELSE PathKeyLess(KeptOf(g), p)
            /\ \A l \in Listings(SeqSet(groups[g])) :
                   keep_path(l, keep, exifOf) = KeptOf(g)


\* C24: similarity_score(h1, h2, bits) is max(0, 1 - d / bits) for the
\* Hamming distance d, lies in [0, 1], and is 1.0 iff d = 0: a pair is
\* flagged duplicate iff its two hashes are identical.
C24_ScoreRange ==
    pc = "returned" =>
        LET d == Cardinality({b \in args.h1 \cup args.h2 : ~(b \in args.h1 /\ b \in args.h2)})
            s == result[1]
        IN /\ s = (IF d >= args.bits THEN 0 ELSE args.bits - d)
           /\ s \in 0..args.bits
           /\ s = args.bits <=> d = 0
           /\ duplicate(s, args.bits) <=> args.h1 = args.h2
\* Reached: a score strictly between 0 and 1, for two hashes that differ.
C24_Witness ==
    /\ pc = "returned"
    /\ args.h1 # args.h2
    /\ result[1] > 0
    /\ result[1] < args.bits


\* The fields of the leftmost "eight digits, _, six digits" of the stem and
\* of its leftmost eight digits, read off the characters.
FullMatches(s) ==
    {i \in 1..(Len(s) - 14) :
        /\ \A k \in (i..(i + 7)) \cup ((i + 9)..(i + 14)) : s[k] < Underscore
        /\ s[i + 8] = Underscore}
DateMatches(s) == {i \in 1..(Len(s) - 7) : \A k \in i..(i + 7) : s[k] < Underscore}
Leftmost(S) == CHOOSE i \in S : \A j \in S : i <= j
Field(s, i, n) == IF n = 2 THEN 10 * s[i] + s[i + 1]
                  ELSE 1000 * s[i] + 100 * s[i + 1] + 10 * s[i + 2] + s[i + 3]
ValidDate(s, i) ==
    LET y == Field(s, i, 4)
        mo == Field(s, i + 4, 2)
        d == Field(s, i + 6, 2)
    IN /\ y >= 1 /\ mo >= 1 /\ mo <= 12 /\ d >= 1
       /\ d <= (IF mo = 2 THEN (IF y % 4 = 0 /\ (y % 100 # 0 \/ y % 400 = 0) THEN 29 ELSE 28)
                ELSE IF mo \in {4, 6, 9, 11} THEN 30 ELSE 31)
ValidTime(s, i) ==
    Field(s, i, 2) <= 23 /\ Field(s, i + 2, 2) <= 59 /\ Field(s, i + 4, 2) <= 59

\* C28 (as claimed): the YYYYMMDD_HHMMSS pattern is tried first and the
\* YYYYMMDD pattern only when the first does not match; a match with
\* invalid calendar or time fields is a miss: none is returned, not a
\* timestamp of a different or partial match.
C28_InvalidMatchIsMiss ==
    pc = "returned" =>
        LET s == args.stem
        IN IF FullMatches(s) # {}
           THEN LET i == Leftmost(FullMatches(s))
                IN result = IF ValidDate(s, i) /\ ValidTime(s, i + 9)
                            THEN Some(<<Field(s, i, 4), Field(s, i + 4, 2), Field(s, i + 6, 2),
                                        Field(s, i + 9, 2), Field(s, i + 11, 2), Field(s, i + 13, 2)>>)
                            ELSE None
           ELSE IF DateMatches(s) # {}
           THEN LET i == Leftmost(DateMatches(s))
                IN result = IF ValidDate(s, i)
                            THEN Some(<<Field(s, i, 4), Field(s, i + 4, 2), Field(s, i + 6, 2), 0, 0, 0>>)
                            ELSE None
           ELSE result = None


\* C25 (as claimed): after a single-directory run with confirmed deletions,
\* whatever combination of --dedupe, --del-similar-over and the deletion
\* of 100% duplicates is active, at least one member of every cluster of
\* similar images found by the run still exists on disk.
C25_ClusterKeepsAMember ==
    (pc = "returned" /\ args.api = "main") =>
        \A g \in 1..Len(groups) : SeqSet(groups[g]) \cap on_disk # {}


\* The lines whose two paths compare as similar, and the path each of them
\* designates to be kept and to be dropped.
SimilarLine(i) ==
    LET a == hashOf[args.lines[i][1]]
        b == hashOf[args.lines[i][2]]
    IN ~IsNone(a) /\ ~IsNone(b)
       /\ Cardinality((Val(a) \cup Val(b)) \ (Val(a) \cap Val(b))) <= 15
KeptOnLine(i) == IF args.keep_in_line = "first" THEN args.lines[i][1] ELSE args.lines[i][2]
OtherOnLine(i) == IF args.keep_in_line = "first" THEN args.lines[i][2] ELSE args.lines[i][1]

\* C26 (as claimed): in -r mode with --keep-in-line and confirmed deletion,
\* for every line whose two paths compare as similar the path to be kept
\* on that line is not deleted by the run and only the other path of the
\* line is, for any list of lines.
C26_KeptInLineSurvives ==
    (pc = "returned" /\ args.api = "main -r") =>
        /\ \A i \in 1..Len(args.lines) :
               SimilarLine(i) => (KeptOnLine(i) \in on_disk /\ OtherOnLine(i) \notin on_disk)
        /\ Paths \ on_disk = {OtherOnLine(i) : i \in {j \in 1..Len(args.lines) : SimilarLine(j)}}


ClusterSet(gs) == {SeqSet(gs[g]) : g \in 1..Len(gs)}

\* C29: on the same corpus, level and threshold, find_similar_groups
\* returns the same set of clusters as pairs_to_groups applied to the pairs
\* of find_similar_pairs_with_scores in full mode, for any num_threads and
\* any order in which the chunk results are taken.
C29_GroupersAgree ==
    pc = "grouped" =>
        ClusterSet(groups) = ClusterSet(find_similar_groups_of(HashedOf(paths, hashOf), hashOf))
\* Reached: clusters built from the pairs of more than one chunk, with a
\* file that is in no cluster.
C29_Witness ==
    /\ pc = "grouped"
    /\ Len(tasks) >= 2
    /\ Len(result) >= 2
    /\ groups # <<>>
    /\ \E p \in SeqSet(paths) : \A g \in 1..Len(groups) : p \notin SeqSet(groups[g])


\* The files task t has hashed so far, and the triples a folder gives.
HashedBy(t) ==
    IF tasks[t].status \in {"queued", "cancelled"} THEN {}
    ELSE IF tasks[t].ph = "hash"
    THEN {tasks[t].group[k] :
            k \in 1..(IF tasks[t].incb \/ tasks[t].status = "failed" THEN tasks[t].idx
                      ELSE tasks[t].idx - 1)}
    ELSE SeqSet(tasks[t].group)
FolderTriples(d) ==
    LET inside == {pq \in SeqSet(paths) \X SeqSet(paths) :
                      /\ Dir(pq[1]) = d /\ Dir(pq[2]) = d
                      /\ ~IsNone(hashOf[pq[1]]) /\ ~IsNone(hashOf[pq[2]])
                      /\ IF use_exif_window THEN pq \in SeqSet(cand[d])
                         ELSE pq[1] < pq[2] /\ should_compare_by_time(pq[1], pq[2])}
    IN {Triple(pq[1], pq[2], hashOf) : pq \in {x \in inside : Within(x[1], x[2], hashOf)}}

\* C30: in the multithreaded fast-same-folder path each folder is processed
\* by exactly one task, which hashes only the files of that folder and
\* compares only pairs inside it: no file is hashed by two tasks, no task
\* reads the hash of a file of another task, and the merged result is the
\* union of the results of the folders, whatever order the tasks complete
\* in.
C30_FolderTasksIsolated ==
    (pairs_api /\ fast_path /\ threaded /\ tasks # NoTask) =>
        /\ \A d \in {Dir(p) : p \in SeqSet(paths)} :
               Cardinality({t \in 1..Len(tasks) :
                              tasks[t].kind = "folder" /\ tasks[t].group = by_dir(paths, d)}) = 1
        /\ Len(tasks) = Cardinality({Dir(p) : p \in SeqSet(paths)})
        /\ \A t, u \in 1..Len(tasks) : t # u => HashedBy(t) \cap HashedBy(u) = {}
        /\ hashed = UNION {HashedBy(t) : t \in 1..Len(tasks)}
        /\ \A t \in 1..Len(tasks) :
               /\ HashedBy(t) \subseteq SeqSet(tasks[t].group)
               /\ \A k \in 1..Len(tasks[t].pairs) :
                      {tasks[t].pairs[k][1], tasks[t].pairs[k][2]} \subseteq SeqSet(tasks[t].group)
               /\ \A k \in 1..Len(tasks[t].res) :
                      {tasks[t].res[k][1], tasks[t].res[k][2]} \subseteq SeqSet(tasks[t].group)
        /\ \A pq \in compared : Dir(pq[1]) = Dir(pq[2])
        /\ pc = "returned" =>
               /\ Len(result) = SumSeq([t \in 1..Len(tasks) |-> Len(tasks[t].res)])
               /\ SeqSet(result) = UNION {SeqSet(tasks[t].res) : t \in 1..Len(tasks)}
               /\ SeqSet(result) = UNION {FolderTriples(d) : d \in Dirs}
\* Reached: two folder tasks, the result of the second taken first.
C30_Witness ==
    /\ pairs_api /\ fast_path /\ threaded
    /\ Len(tasks) = 2
    /\ tasks[2].consumed /\ ~tasks[1].consumed
    /\ tasks[1].status = "running" /\ tasks[1].ph = "compare"
    /\ hashed = SeqSet(paths)


\* The triples of the call on the corpus without the files whose decode
\* failed: the pairs of the mode over the decoded files, within ham.  (In
\* the EXIF branch the candidate pairs of a folder without a file are those
\* of the folder that do not hold it: C14, C15.)
Decoded(p) == ~IsNone(hashOf[p])
TriplesWithoutFailed ==
    LET prs == {pq \in SeqSet(paths) \X SeqSet(paths) :
                   /\ Decoded(pq[1]) /\ Decoded(pq[2])
                   /\ fast_path => Dir(pq[1]) = Dir(pq[2])
                   /\ IF exif_branch THEN pq \in SeqSet(cand[Dir(pq[1])])
                      ELSE pq[1] < pq[2] /\ should_compare_by_time(pq[1], pq[2])}
    IN {Triple(pq[1], pq[2], hashOf) : pq \in {x \in prs : Within(x[1], x[2], hashOf)}}
OneHashUpdatePerFile ==
    /\ Len(PhaseEvents("hash")) = Len(paths)
    /\ \A p \in SeqSet(paths) : <<p>> \in DOMAIN notified /\ notified[<<p>>] = 1
FailedInNoPair ==
    /\ \A i \in 1..Len(result) : Decoded(result[i][1]) /\ Decoded(result[i][2])
    /\ SeqSet(result) = TriplesWithoutFailed
    /\ Len(result) = Cardinality(TriplesWithoutFailed)

\* C23 (as claimed): in every mode and for every num_threads the sink
\* receives exactly one "hash" update per collected file, whether or not
\* its decode succeeds; a file whose decode fails is in no returned pair,
\* and the pairs among the other files are returned as if it were absent.
C23_DecodeFailuresSoft ==
    (pc = "returned" /\ pairs_api) =>
        /\ args.cb # "none" => OneHashUpdatePerFile
        /\ FailedInNoPair

\* C23 (amended): the same for a corpus of two or more collected files;
\* with fewer the call returns at once, without an update.
C23_DecodeFailuresSoftFromTwoFiles ==
    (pc = "returned" /\ pairs_api) =>
        /\ (args.cb # "none" /\ Len(paths) >= 2) => OneHashUpdatePerFile
        /\ Len(paths) < 2 => events = <<>>
        /\ FailedInNoPair
\* Reached: a threaded call with a sink returns pairs although a decode
\* failed.
C23_Witness ==
    /\ pc = "returned" /\ pairs_api /\ threaded /\ args.cb = "ok"
    /\ \E p \in SeqSet(paths) : ~Decoded(p)
    /\ result # <<>>

====
